---- MODULE Spec2Model ----
(***************************************************************************)
(* The forwarding pipeline of the DNS-to-DoH proxy (client.go, server.go): *)
(* Stop, runListener, runResolver (N workers), runWriter, the channels     *)
(* made by Client.Init, and Client.Resolve with the DoH and DNS upstream   *)
(* calls.  A Go panic in any goroutine ends the whole process; the         *)
(* variable panic records it and no action is enabled afterwards.          *)
(***************************************************************************)
EXTENDS Naturals, Sequences, FiniteSets

\* ------------------------------------------------------------------ bounds

\* client.Num = runtime.NumCPU(): the number of workers, and the capacity of
\* the lookup and result queues.
Num == 2

\* Datagrams the stub resolvers send during one run.
MaxReads == 3

\* Questions in one query read by the listener (0..MaxQuestions).
MaxQuestions == 1

\* Questions in the query of a job handled alone (0..MaxBenchQuestions).
MaxBenchQuestions == 2

\* Shutdown signals the operating system delivers during one run.
MaxSignals == 1

\* Shutdown signals it delivers during one run without traffic.
MaxRepeats == 2

\* The longest data string of a JSON answer, in tokens (an RRSIG has 9).
MaxTokens == 9

\* The most records in the Answer section of a JSON reply.
MaxRecords == 2

\* ------------------------------------------------------------- environment

\* Counts of the history are told apart up to here: MaxCount stands for
\* MaxCount or more.
MaxCount == 2

Workers == 1..Num

RcodeSuccess == 0
RcodeServerFailure == 2
RcodeNameError == 3
Rcodes == {RcodeSuccess, RcodeServerFailure, RcodeNameError}

\* The configured pool (AddUpstream): a DoH upstream, a classical upstream
\* and one configured with a port that is neither.
Resolvers ==
  << [Name |-> "Google", Port |-> 443],
     [Name |-> "Classic", Port |-> 53],
     [Name |-> "Other", Port |-> 8053] >>

\* The k-th datagram of a run comes from return address k and, when it is a
\* query, carries transaction id k (never 0, the id of a fresh dns.Msg).
AddrOf(k) == k
IdOf(k) == k

\* What the listener can read from the socket as its k-th datagram: bytes
\* that do not unpack, or the wire form of a query with nq questions.
DatagramsUpTo(k, maxq) ==
  {[ok |-> FALSE, Id |-> 0, nq |-> 0]}
    \cup [ok : {TRUE}, Id : {IdOf(k)}, nq : 0..maxq]

Datagrams(k) == DatagramsUpTo(k, MaxQuestions)

\* The zero value of job, received from a closed channel.
ZeroJob == [Addr |-> 0, Data |-> [ok |-> FALSE, Id |-> 0, nq |-> 0]]

\* ---------------------------------------------------------------- messages

\* new(dns.Msg): every field zero.
EmptyMsg == [Id |-> 0, Response |-> FALSE, Rcode |-> 0, Answer |-> "empty"]

\* A nil *dns.Msg.
NilMsg == [Id |-> 0, Response |-> FALSE, Rcode |-> 0, Answer |-> "nil"]

\* What dnsClient.Exchange can return for a query: a transport error, or the
\* upstream's response to this query (the library matches the id) with any
\* response code; only a successful response carries records.  (http is the
\* status line of an HTTPS reply: 0 where there is none.)
DNSReplies ==
  { [kind |-> "dns", err |-> TRUE, http |-> 0, Rcode |-> 0, body |-> "none"],
    [kind |-> "dns", err |-> FALSE, http |-> 0, Rcode |-> RcodeSuccess,
     body |-> "records"],
    [kind |-> "dns", err |-> FALSE, http |-> 0, Rcode |-> RcodeServerFailure,
     body |-> "empty"],
    [kind |-> "dns", err |-> FALSE, http |-> 0, Rcode |-> RcodeNameError,
     body |-> "empty"] }

\* The status lines an HTTPS upstream answers with: success, and two that
\* are not 2xx.
HTTPStatuses == {200, 404, 500}

\* What the HTTPS GET can return: a transport error (err), or a reply with a
\* status line and a body that is
\*   "blank"        empty,
\*   "nonjson"      not a JSON object,
\* or a JSON object with a Status (Rcode) and sections that are
\*   "empty"        absent,
\*   "records"      answers of supported types with well-formed data,
\*   "unpackable"   answers of supported types whose rdata the packer rejects,
\*   "unsupported"  an answer whose type is outside the supported set,
\*   "malformed"    a section or field of the wrong JSON shape.
DoHReplies ==
  { [kind |-> "doh", err |-> TRUE, http |-> 0, Rcode |-> 0, body |-> "none"],
    [kind |-> "doh", err |-> FALSE, http |-> 200, Rcode |-> RcodeSuccess,
     body |-> "unpackable"],
    [kind |-> "doh", err |-> FALSE, http |-> 200, Rcode |-> RcodeSuccess,
     body |-> "unsupported"],
    [kind |-> "doh", err |-> FALSE, http |-> 200, Rcode |-> RcodeSuccess,
     body |-> "malformed"],
    [kind |-> "doh", err |-> FALSE, http |-> 200, Rcode |-> RcodeServerFailure,
     body |-> "empty"],
    [kind |-> "doh", err |-> FALSE, http |-> 200, Rcode |-> RcodeNameError,
     body |-> "empty"] }
    \cup [kind : {"doh"}, err : {FALSE}, http : HTTPStatuses,
          Rcode : {RcodeSuccess}, body : {"blank", "nonjson", "records"}]

\* A resolver whose port is neither 443 nor 53 is not called at all.
NoReply ==
  [kind |-> "skip", err |-> FALSE, http |-> 0, Rcode |-> 0, body |-> "none"]

\* ------------------------------------------------------------------- state

\* The tasks StartProxy starts, as the tags of their acknowledgements.
ListenerTag == << "listener", 0 >>
WriterTag == << "writer", 0 >>
ResolverTag(w) == << "resolver", w >>
Tasks == {ListenerTag, WriterTag} \cup {ResolverTag(w) : w \in Workers}

VARIABLES
  ShutDownChan,      \* signals buffered in client.ShutDownChan (capacity 1)
  shutDownClosed,    \* close(client.ShutDownChan) has run
  ListenerExitChan,  \* values buffered (capacity 1)
  ResolverExitChan,  \* values buffered (capacity Num)
  WriterExitChan,    \* values buffered (capacity 1)
  ExitChan,          \* acknowledgements buffered (capacity Num+2): how many
                     \* each task has sent that Stop has not yet received
  LookUpChan,        \* jobs buffered (capacity Num)
  lookUpClosed,
  ResultChan,        \* jobs buffered (capacity Num)
  resultClosed,
  pcOpen,            \* client.PC has not been closed
  stopPc,            \* where Stop is
  stopI,             \* the loop counter i of Stop's two loops
  acks,              \* how many acknowledgements of each task Stop received
  lpc, lJob,         \* runListener: position, the job it holds
  wpc, wJob, wQi, wResp, \* runResolver, per worker: position, the job, the
                     \* question Resolve is at, responseM
  wrpc,              \* runWriter: position
  reads,             \* datagrams read so far
  signals,           \* shutdown signals delivered so far
  panic,             \* "none", or the panic that ended the process
  hist,              \* per return address (0: the zero job's nil address):
                     \* how many jobs with it the workers unpacked, and how
                     \* many WriteTo calls the writer made to it
  rJob, rCalls, rOut, \* one job handled alone: the job, the resolver
                     \* selected and the upstream's reply for each question,
                     \* and the worker's state after handling it
  build,             \* the build: which copy of constructResource is linked
                     \* and how the target converts an out-of-range float
  cAnswer, cRR,      \* one JSON answer reconstructed alone, and the outcome
  cQuery, cMsg, cMap, cRes, \* one DoH reply reconstructed alone: the
                     \* query, responseM before, the JSON object, the outcome
  iCall, iOut        \* one query resolved and packed alone, observed at the
                     \* interface of Resolve: the call, and its outcome

vars ==
  << ShutDownChan, shutDownClosed, ListenerExitChan, ResolverExitChan,
     WriterExitChan, ExitChan, LookUpChan, lookUpClosed, ResultChan,
     resultClosed, pcOpen, stopPc, stopI, acks, lpc, lJob, wpc, wJob, wQi,
     wResp, wrpc, reads, signals, panic, hist, rJob, rCalls, rOut, build,
     cAnswer, cRR, cQuery, cMsg, cMap, cRes, iCall, iOut >>

chanVars ==
  << ShutDownChan, shutDownClosed, ListenerExitChan, ResolverExitChan,
     WriterExitChan, ExitChan, LookUpChan, lookUpClosed, ResultChan,
     resultClosed >>

stopVars == << stopPc, stopI, acks, signals >>
listenerVars == << lpc, lJob, reads >>
workerVars == << wpc, wJob, wQi, wResp >>
codecVars == << build, cAnswer, cRR, cQuery, cMsg, cMap, cRes >>
benchVars == << rJob, rCalls, rOut, codecVars, iCall, iOut >>

\* The process is alive: no goroutine has panicked and main has not returned.
Alive == panic = "none" /\ stopPc # "done"

RECURSIVE SumOver(_, _)
SumOver(f, S) ==
  IF S = {} THEN 0
  ELSE LET x == CHOOSE y \in S : TRUE IN f[x] + SumOver(f, S \ {x})

\* len(client.ExitChan)
ExitChanLen == SumOver(ExitChan, Tasks)

\* Client.Init and StartProxy: empty open channels, the socket bound, every
\* task started, Stop waiting for the shutdown signal.
PipelineInit ==
  /\ ShutDownChan = 0
  /\ shutDownClosed = FALSE
  /\ ListenerExitChan = 0
  /\ ResolverExitChan = 0
  /\ WriterExitChan = 0
  /\ ExitChan = [t \in Tasks |-> 0]
  /\ LookUpChan = << >>
  /\ lookUpClosed = FALSE
  /\ ResultChan = << >>
  /\ resultClosed = FALSE
  /\ pcOpen = TRUE
  /\ stopPc = "wait_signal"
  /\ stopI = 0
  /\ acks = [t \in Tasks |-> 0]
  /\ lpc = "select"
  /\ lJob = ZeroJob
  /\ wpc = [w \in Workers |-> "select"]
  /\ wJob = [w \in Workers |-> ZeroJob]
  /\ wQi = [w \in Workers |-> 0]
  /\ wResp = [w \in Workers |-> NilMsg]
  /\ wrpc = "select"
  /\ reads = 0
  /\ signals = 0
  /\ panic = "none"
  /\ hist = [a \in 0..MaxReads |-> [parsed |-> 0, written |-> 0]]

\* A count of the history, one more; what is done with the zero job is
\* recorded, not counted.
Bump(a, n) ==
  IF n < (IF a = ZeroJob.Addr THEN 1 ELSE MaxCount) THEN n + 1 ELSE n

\* queryM.Unpack(buffer) has run on a job whose return address is a.
Parsed(a) == [hist EXCEPT ![a].parsed = Bump(a, @)]

\* client.PC.WriteTo(responseBytes, responseAddr) has run with address a.
Written(a) == [hist EXCEPT ![a].written = Bump(a, @)]

\* ------------------------------------------------------------------- Stop

\* The statements of Stop, in program order.
StopOrderWorkersFirst ==
  << "wait_signal", "signal_resolvers", "signal_listener", "close_pc",
     "signal_writer", "close_shutdown", "close_lookup", "close_result",
     "wait_acks", "close_exit", "done" >>

StopOrder ==
  << "wait_signal", "signal_listener", "close_pc", "signal_resolvers",
     "signal_writer", "close_shutdown", "close_lookup", "close_result",
     "wait_acks", "close_exit", "done" >>

StopAfter(pc) ==
  LET i == CHOOSE k \in 1..Len(StopOrder) : StopOrder[k] = pc
  IN  StopOrder[i + 1]

\* The acknowledgements Stop waits for.
AcksAwaitedOneShort == Num + 1

AcksAwaited == Num + 2

\* Everything Stop leaves alone but the channels and the socket.
taskVars == << lpc, lJob, reads, wpc, wJob, wQi, wResp, wrpc, signals,
               hist, benchVars >>

\* <-client.ShutDownChan
StopWaitSignal ==
  /\ Alive
  /\ stopPc = "wait_signal"
  /\ ShutDownChan > 0
  /\ ShutDownChan' = ShutDownChan - 1
  /\ stopPc' = StopAfter(stopPc)
  /\ UNCHANGED << shutDownClosed, ListenerExitChan, ResolverExitChan,
                  WriterExitChan, ExitChan, LookUpChan, lookUpClosed,
                  ResultChan, resultClosed, pcOpen, stopI, acks, taskVars,
                  panic >>

\* client.ListenerExitChan <- true
StopSignalListener ==
  /\ Alive
  /\ stopPc = "signal_listener"
  /\ ListenerExitChan < 1
  /\ ListenerExitChan' = ListenerExitChan + 1
  /\ stopPc' = StopAfter(stopPc)
  /\ UNCHANGED << ShutDownChan, shutDownClosed, ResolverExitChan,
                  WriterExitChan, ExitChan, LookUpChan, lookUpClosed,
                  ResultChan, resultClosed, pcOpen, stopI, acks, taskVars,
                  panic >>

\* client.PC.Close()
StopClosePC ==
  /\ Alive
  /\ stopPc = "close_pc"
  /\ pcOpen' = FALSE
  /\ stopPc' = StopAfter(stopPc)
  /\ UNCHANGED << chanVars, stopI, acks, taskVars, panic >>

\* The loop with the bound i <= client.Num: one signal more than the
\* channel holds.
StopSignalResolversOneMore ==
  /\ Alive
  /\ stopPc = "signal_resolvers"
  /\ IF stopI < Num + 1
       THEN /\ ResolverExitChan < Num
            /\ ResolverExitChan' = ResolverExitChan + 1
            /\ stopI' = stopI + 1
            /\ stopPc' = stopPc
       ELSE /\ ResolverExitChan' = ResolverExitChan
            /\ stopI' = 0
            /\ stopPc' = StopAfter(stopPc)
  /\ UNCHANGED << ShutDownChan, shutDownClosed, ListenerExitChan,
                  WriterExitChan, ExitChan, LookUpChan, lookUpClosed,
                  ResultChan, resultClosed, pcOpen, acks, taskVars, panic >>

\* for i := 0; i < client.Num; i++ { client.ResolverExitChan <- true }
StopSignalResolvers ==
  /\ Alive
  /\ stopPc = "signal_resolvers"
  /\ IF stopI < Num
       THEN /\ ResolverExitChan < Num
            /\ ResolverExitChan' = ResolverExitChan + 1
            /\ stopI' = stopI + 1
            /\ stopPc' = stopPc
       ELSE /\ ResolverExitChan' = ResolverExitChan
            /\ stopI' = 0
            /\ stopPc' = StopAfter(stopPc)
  /\ UNCHANGED << ShutDownChan, shutDownClosed, ListenerExitChan,
                  WriterExitChan, ExitChan, LookUpChan, lookUpClosed,
                  ResultChan, resultClosed, pcOpen, acks, taskVars, panic >>

\* client.WriterExitChan <- true
StopSignalWriter ==
  /\ Alive
  /\ stopPc = "signal_writer"
  /\ WriterExitChan < 1
  /\ WriterExitChan' = WriterExitChan + 1
  /\ stopPc' = StopAfter(stopPc)
  /\ UNCHANGED << ShutDownChan, shutDownClosed, ListenerExitChan,
                  ResolverExitChan, ExitChan, LookUpChan, lookUpClosed,
                  ResultChan, resultClosed, pcOpen, stopI, acks, taskVars,
                  panic >>

\* close(client.ShutDownChan)
StopCloseShutDown ==
  /\ Alive
  /\ stopPc = "close_shutdown"
  /\ shutDownClosed' = TRUE
  /\ stopPc' = StopAfter(stopPc)
  /\ UNCHANGED << ShutDownChan, ListenerExitChan, ResolverExitChan,
                  WriterExitChan, ExitChan, LookUpChan, lookUpClosed,
                  ResultChan, resultClosed, pcOpen, stopI, acks, taskVars,
                  panic >>

\* close(client.LookUpChan)
StopCloseLookUp ==
  /\ Alive
  /\ stopPc = "close_lookup"
  /\ lookUpClosed' = TRUE
  /\ stopPc' = StopAfter(stopPc)
  /\ UNCHANGED << ShutDownChan, shutDownClosed, ListenerExitChan,
                  ResolverExitChan, WriterExitChan, ExitChan, LookUpChan,
                  ResultChan, resultClosed, pcOpen, stopI, acks, taskVars,
                  panic >>

\* close(client.ResultChan)
StopCloseResult ==
  /\ Alive
  /\ stopPc = "close_result"
  /\ resultClosed' = TRUE
  /\ stopPc' = StopAfter(stopPc)
  /\ UNCHANGED << ShutDownChan, shutDownClosed, ListenerExitChan,
                  ResolverExitChan, WriterExitChan, ExitChan, LookUpChan,
                  lookUpClosed, ResultChan, pcOpen, stopI, acks, taskVars,
                  panic >>

\* for i := 0; i < client.Num+2; i++ { <-client.ExitChan }
StopWaitAcks ==
  /\ Alive
  /\ stopPc = "wait_acks"
  /\ IF stopI < AcksAwaited
       THEN /\ \E t \in Tasks :
                 /\ ExitChan[t] > 0
                 /\ ExitChan' = [ExitChan EXCEPT ![t] = @ - 1]
                 /\ acks' = [acks EXCEPT ![t] = @ + 1]
            /\ stopI' = stopI + 1
            /\ stopPc' = stopPc
       ELSE /\ UNCHANGED << acks, ExitChan >>
            /\ stopI' = 0
            /\ stopPc' = StopAfter(stopPc)
  /\ UNCHANGED << ShutDownChan, shutDownClosed, ListenerExitChan,
                  ResolverExitChan, WriterExitChan, LookUpChan,
                  lookUpClosed, ResultChan, resultClosed, pcOpen, taskVars,
                  panic >>

\* close(client.ExitChan); client.ErrLogFile.Close(); Stop returns, then
\* StartProxy and main: the process ends.
StopReturn ==
  /\ Alive
  /\ stopPc = "close_exit"
  /\ stopPc' = StopAfter(stopPc)
  /\ UNCHANGED << chanVars, pcOpen, stopI, acks, taskVars, panic >>

\* The operating system delivers SIGINT or SIGTERM, one of at most n in the
\* run: os/signal sends it to the channel given to signal.Notify without
\* blocking (a full channel drops it), and a send on a closed channel
\* panics.  Nothing ever ends the notification.
SignalOf(n) ==
  /\ Alive
  /\ signals < n
  /\ signals' = signals + 1
  /\ IF shutDownClosed
       THEN /\ panic' = "send on closed channel"
            /\ UNCHANGED ShutDownChan
       ELSE /\ ShutDownChan' = IF ShutDownChan < 1 THEN ShutDownChan + 1
                                                  ELSE ShutDownChan
            /\ UNCHANGED panic
  /\ UNCHANGED << shutDownClosed, ListenerExitChan, ResolverExitChan,
                  WriterExitChan, ExitChan, LookUpChan, lookUpClosed,
                  ResultChan, resultClosed, pcOpen, stopPc, stopI, acks,
                  listenerVars, workerVars, wrpc, hist, benchVars >>

\* A signal of a run with traffic.
Signal == SignalOf(MaxSignals)

\* A signal of a run in which the operator repeats the signal.
SignalRepeated == SignalOf(MaxRepeats)

\* ------------------------------------------------------------ runListener

\* select: case <-client.ListenerExitChan: acknowledge and return;
\* default: call ReadFrom.
ListenerSelect ==
  /\ Alive
  /\ lpc = "select"
  /\ IF ListenerExitChan > 0
       THEN /\ ListenerExitChan' = ListenerExitChan - 1
            /\ ExitChanLen < Num + 2
            /\ ExitChan' = [ExitChan EXCEPT ![ListenerTag] = @ + 1]
            /\ lpc' = "exited"
       ELSE /\ UNCHANGED << ListenerExitChan, ExitChan >>
            /\ lpc' = "read"
  /\ UNCHANGED << ShutDownChan, shutDownClosed, ResolverExitChan,
                  WriterExitChan, LookUpChan, lookUpClosed, ResultChan,
                  resultClosed, pcOpen, stopVars, lJob, reads, workerVars,
                  wrpc, panic, hist, benchVars >>

\* client.PC.ReadFrom(buffer) returns a datagram and its return address.
ListenerRead ==
  /\ Alive
  /\ lpc = "read"
  /\ pcOpen
  /\ reads < MaxReads
  /\ \E d \in Datagrams(reads + 1) :
       lJob' = [Addr |-> AddrOf(reads + 1), Data |-> d]
  /\ reads' = reads + 1
  /\ lpc' = "send"
  /\ UNCHANGED << chanVars, pcOpen, stopVars, workerVars, wrpc, panic,
                  hist, benchVars >>

\* client.PC.ReadFrom(buffer) returns an error (always, once the socket is
\* closed): log and continue.
ListenerReadError ==
  /\ Alive
  /\ lpc = "read"
  /\ lpc' = "select"
  /\ UNCHANGED << chanVars, pcOpen, stopVars, lJob, reads, workerVars, wrpc,
                  panic, hist, benchVars >>

\* The send as a select with a default case: a full queue drops the job.
ListenerSendOrDrop ==
  /\ Alive
  /\ lpc = "send"
  /\ IF lookUpClosed
       THEN /\ panic' = "send on closed channel"
            /\ UNCHANGED << LookUpChan, lpc, lJob >>
       ELSE /\ LookUpChan' = IF Len(LookUpChan) < Num
                               THEN Append(LookUpChan, lJob)
                               ELSE LookUpChan
            /\ lpc' = "select"
            /\ lJob' = ZeroJob
            /\ UNCHANGED panic
  /\ UNCHANGED << ShutDownChan, shutDownClosed, ListenerExitChan,
                  ResolverExitChan, WriterExitChan, ExitChan, lookUpClosed,
                  ResultChan, resultClosed, pcOpen, stopVars, reads,
                  workerVars, wrpc, hist, benchVars >>

\* client.LookUpChan <- newJob: blocks while the queue is full, panics once
\* it is closed.
ListenerSend ==
  /\ Alive
  /\ lpc = "send"
  /\ IF lookUpClosed
       THEN /\ panic' = "send on closed channel"
            /\ UNCHANGED << LookUpChan, lpc, lJob >>
       ELSE /\ Len(LookUpChan) < Num
            /\ LookUpChan' = Append(LookUpChan, lJob)
            /\ lpc' = "select"
            /\ lJob' = ZeroJob
            /\ UNCHANGED panic
  /\ UNCHANGED << ShutDownChan, shutDownClosed, ListenerExitChan,
                  ResolverExitChan, WriterExitChan, ExitChan, lookUpClosed,
                  ResultChan, resultClosed, pcOpen, stopVars, reads,
                  workerVars, wrpc, hist, benchVars >>

\* -------------------------------------------------------------- runWriter

\* select: case <-client.WriterExitChan: acknowledge and return.
WriterExit ==
  /\ Alive
  /\ wrpc = "select"
  /\ WriterExitChan > 0
  /\ WriterExitChan' = WriterExitChan - 1
  /\ ExitChanLen < Num + 2
  /\ ExitChan' = [ExitChan EXCEPT ![WriterTag] = @ + 1]
  /\ wrpc' = "exited"
  /\ UNCHANGED << ShutDownChan, shutDownClosed, ListenerExitChan,
                  ResolverExitChan, LookUpChan, lookUpClosed, ResultChan,
                  resultClosed, pcOpen, stopVars, listenerVars, workerVars,
                  panic, hist, benchVars >>

\* The writer receives the result job and writes nothing.
WriterWriteNothing ==
  /\ Alive
  /\ wrpc = "select"
  /\ ResultChan # << >>
  /\ ResultChan' = Tail(ResultChan)
  /\ UNCHANGED << ShutDownChan, shutDownClosed, ListenerExitChan,
                  ResolverExitChan, WriterExitChan, ExitChan, LookUpChan,
                  lookUpClosed, resultClosed, pcOpen, stopVars,
                  listenerVars, workerVars, wrpc, panic, hist, benchVars >>

\* select: case newResult := <-client.ResultChan: WriteTo, whose result is
\* ignored.
WriterWrite ==
  /\ Alive
  /\ wrpc = "select"
  /\ ResultChan # << >>
  /\ ResultChan' = Tail(ResultChan)
  /\ hist' = Written(Head(ResultChan).Addr)
  /\ UNCHANGED << ShutDownChan, shutDownClosed, ListenerExitChan,
                  ResolverExitChan, WriterExitChan, ExitChan, LookUpChan,
                  lookUpClosed, resultClosed, pcOpen, stopVars,
                  listenerVars, workerVars, wrpc, panic, benchVars >>

\* The receive from the closed, empty result queue yields the zero job;
\* WriteTo(nil, nil) fails and the loop goes on.
WriterRecvClosed ==
  /\ Alive
  /\ wrpc = "select"
  /\ ResultChan = << >>
  /\ resultClosed
  /\ hist' = Written(ZeroJob.Addr)
  /\ UNCHANGED << chanVars, pcOpen, stopVars, listenerVars, workerVars, wrpc,
                  panic, benchVars >>

\* ------------------------------------------------- codec, DNS, DoH, Resolve

\* queryM.Unpack(buffer): the query the bytes encode, or an error.
Unpack(data) == [err |-> ~data.ok, Id |-> data.Id, nq |-> data.nq]

\* responseM.Pack(): the wire form of the message, or an error: the packer
\* rejects some rdata.
Pack(m) ==
  [err |-> m.Answer = "unpackable",
   Data |-> IF m.Answer = "unpackable"
              THEN NilMsg
              ELSE [Id |-> m.Id, Response |-> m.Response, Rcode |-> m.Rcode,
                    Answer |-> m.Answer]]

\* responseM.SetReply(queryM): the reply's header is seeded from the query.
SetReply(m, query) ==
  [m EXCEPT !.Id = query.Id, !.Response = TRUE, !.Rcode = RcodeSuccess]

\* DoH(resolver, question): the JSON object of the reply, or an error: of
\* the transport (httpClient.Do, ReadAll) or of json.Unmarshal, which rejects
\* an empty body and a body that is not a JSON object.  The status line is
\* not read.
DoH(reply) ==
  [err |-> reply.err \/ reply.body \in {"blank", "nonjson"},
   responseMap |-> reply]

\* constructResponseMessage(responseM, responseMap): the sections are
\* rebuilt from the JSON object; a section or field of the wrong shape fails
\* a type assertion (a panic), an unsupported type is an error.  Status is
\* not read.
constructResponseMessage(m, responseMap) ==
  CASE responseMap.body = "malformed" ->
         [panic |-> "interface conversion", err |-> FALSE, msg |-> m]
    [] responseMap.body = "unsupported" ->
         [panic |-> "none", err |-> TRUE, msg |-> m]
    [] OTHER ->
         [panic |-> "none", err |-> FALSE,
          msg |-> [m EXCEPT !.Answer = responseMap.body]]

\* The message dnsClient.Exchange unpacked: the upstream's response to this
\* query.
ExchangeMsg(query, reply) ==
  [Id |-> query.Id, Response |-> TRUE, Rcode |-> reply.Rcode,
   Answer |-> reply.body]

\* DNS(resolver, queryM): on SERVFAIL "return nil, err" runs with err == nil.
DNSDropsNameError(query, reply) ==
  IF reply.err
    THEN [err |-> TRUE, msg |-> NilMsg]
    ELSE IF reply.Rcode # RcodeSuccess
           THEN [err |-> reply.Rcode # RcodeServerFailure, msg |-> NilMsg]
           ELSE [err |-> FALSE, msg |-> ExchangeMsg(query, reply)]

DNS(query, reply) ==
  IF reply.err
    THEN [err |-> TRUE, msg |-> NilMsg]
    ELSE IF reply.Rcode # RcodeSuccess /\ reply.Rcode = RcodeServerFailure
           THEN [err |-> FALSE, msg |-> NilMsg]
           ELSE [err |-> FALSE, msg |-> ExchangeMsg(query, reply)]

\* What an upstream call on resolver r can return.
RepliesOf(r) ==
  CASE Resolvers[r].Port = 443 -> DoHReplies
    [] Resolvers[r].Port = 53 -> DNSReplies
    [] OTHER -> {NoReply}

\* client.shard(questionString): any member of the pool.
shard == 1..Len(Resolvers)

\* A resolver selected for a question, and what its upstream replied.
Calls == UNION {{[resolver |-> r, reply |-> x] : x \in RepliesOf(r)} : r \in shard}

\* The body of Resolve's loop for one question, with the resolver selected
\* for it and the reply of its upstream: the loop continues with responseM
\* (next = "continue"), or Resolve returns (msg, err), or a panic.
ResolveQuestion(query, responseM, call) ==
  CASE Resolvers[call.resolver].Port = 443 ->
         IF DoH(call.reply).err
           THEN [next |-> "return", panic |-> "none", err |-> TRUE, msg |-> NilMsg]
           ELSE LET c == constructResponseMessage(SetReply(responseM, query),
                                                  DoH(call.reply).responseMap)
                IN  IF c.panic # "none"
                      THEN [next |-> "panic", panic |-> c.panic, err |-> FALSE,
                            msg |-> NilMsg]
                      ELSE IF c.err
                             THEN [next |-> "return", panic |-> "none",
                                   err |-> TRUE, msg |-> NilMsg]
                             ELSE [next |-> "continue", panic |-> "none",
                                   err |-> FALSE, msg |-> c.msg]
    [] Resolvers[call.resolver].Port = 53 ->
         IF DNS(query, call.reply).err
           THEN [next |-> "return", panic |-> "none", err |-> TRUE, msg |-> NilMsg]
           ELSE [next |-> "return", panic |-> "none", err |-> FALSE,
                 msg |-> DNS(query, call.reply).msg]
    [] OTHER ->
         [next |-> "continue", panic |-> "none", err |-> FALSE, msg |-> responseM]

\* Resolve(queryM) from question qi on: calls[i] is the resolver shard
\* selects for question i and the reply of its upstream.
RECURSIVE ResolveFrom(_, _, _, _)
ResolveFrom(query, responseM, calls, qi) ==
  IF qi > query.nq
    THEN [next |-> "return", panic |-> "none", err |-> FALSE, msg |-> responseM]
    ELSE LET s == ResolveQuestion(query, responseM, calls[qi])
         IN  IF s.next = "continue"
               THEN ResolveFrom(query, s.msg, calls, qi + 1)
               ELSE s

\* client.Resolve(queryM): responseM starts as new(dns.Msg).
Resolve(query, calls) == ResolveFrom(query, EmptyMsg, calls, 1)

\* ------------------------------------------------------------ runResolver

\* A worker's local state: at its select, holding nothing.
AtSelect ==
  [pc |-> "select", job |-> ZeroJob, qi |-> 0, resp |-> NilMsg,
   panic |-> "none"]

\* The worker logged an error and continues with its loop.
Dropped == AtSelect

\* The job has not been handled yet.
Pending == [AtSelect EXCEPT !.pc = "pending"]

\* client.Resolve returned r to the worker: an error is logged and the loop
\* continues; otherwise responseM.Pack(), which dereferences responseM, and
\* the result job (addr, responseBytes) is ready to be enqueued.
AfterResolve(job, r) ==
  CASE r.panic # "none" ->
         [AtSelect EXCEPT !.pc = "resolve", !.job = job, !.panic = r.panic]
    [] r.panic = "none" /\ r.err -> Dropped
    [] r.panic = "none" /\ ~r.err /\ r.msg = NilMsg ->
         [AtSelect EXCEPT !.pc = "pack", !.job = job,
                          !.panic = "nil pointer dereference"]
    [] OTHER ->
         IF Pack(r.msg).err
           THEN Dropped
           ELSE [AtSelect EXCEPT !.pc = "send", !.job = job,
                                 !.resp = Pack(r.msg).Data]

\* The case "newJob := <-client.LookUpChan" of runResolver up to the send on
\* the result queue, for a job and the upstream calls made for it.
HandleJob(job, calls) ==
  IF Unpack(job.Data).err
    THEN Dropped
    ELSE AfterResolve(job, Resolve(Unpack(job.Data), calls))

\* The head of Resolve's loop at question qi: past the last question Resolve
\* returns responseM, otherwise a resolver is selected and called.
EnterLoop(job, responseM, qi) ==
  IF qi > Unpack(job.Data).nq
    THEN AfterResolve(job, ResolveFrom(Unpack(job.Data), responseM, << >>, qi))
    ELSE [AtSelect EXCEPT !.pc = "call", !.job = job, !.qi = qi,
                          !.resp = responseM]

\* The worker's local state becomes o.
WorkerBecomes(w, o) ==
  /\ wpc' = [wpc EXCEPT ![w] = o.pc]
  /\ wJob' = [wJob EXCEPT ![w] = o.job]
  /\ wQi' = [wQi EXCEPT ![w] = o.qi]
  /\ wResp' = [wResp EXCEPT ![w] = o.resp]
  /\ panic' = o.panic

\* select: case <-client.ResolverExitChan: acknowledge and return.
WorkerExit(w) ==
  /\ Alive
  /\ wpc[w] = "select"
  /\ ResolverExitChan > 0
  /\ ResolverExitChan' = ResolverExitChan - 1
  /\ ExitChanLen < Num + 2
  /\ ExitChan' = [ExitChan EXCEPT ![ResolverTag(w)] = @ + 1]
  /\ wpc' = [wpc EXCEPT ![w] = "exited"]
  /\ UNCHANGED << ShutDownChan, shutDownClosed, ListenerExitChan,
                  WriterExitChan, LookUpChan, lookUpClosed, ResultChan,
                  resultClosed, pcOpen, stopVars, listenerVars, wJob, wQi,
                  wResp, wrpc, panic, hist, benchVars >>

\* The worker reads the head of the queue and leaves it there.
WorkerRecvPeek(w) ==
  /\ Alive
  /\ wpc[w] = "select"
  /\ LookUpChan # << >>
  /\ IF Unpack(Head(LookUpChan).Data).err
       THEN WorkerBecomes(w, Dropped)
       ELSE WorkerBecomes(w, EnterLoop(Head(LookUpChan), EmptyMsg, 1))
  /\ hist' = Parsed(Head(LookUpChan).Addr)
  /\ UNCHANGED << chanVars, pcOpen, stopVars, listenerVars, wrpc, benchVars >>

\* select: case newJob := <-client.LookUpChan: unpack the query (an error is
\* logged and the loop continues) and enter Resolve with a fresh responseM.
WorkerRecv(w) ==
  /\ Alive
  /\ wpc[w] = "select"
  /\ LookUpChan # << >>
  /\ LookUpChan' = Tail(LookUpChan)
  /\ IF Unpack(Head(LookUpChan).Data).err
       THEN WorkerBecomes(w, Dropped)
       ELSE WorkerBecomes(w, EnterLoop(Head(LookUpChan), EmptyMsg, 1))
  /\ hist' = Parsed(Head(LookUpChan).Addr)
  /\ UNCHANGED << ShutDownChan, shutDownClosed, ListenerExitChan,
                  ResolverExitChan, WriterExitChan, ExitChan, lookUpClosed,
                  ResultChan, resultClosed, pcOpen, stopVars, listenerVars,
                  wrpc, benchVars >>

\* The receive from the closed, empty lookup queue yields the zero job,
\* whose empty buffer does not unpack: log and continue.
WorkerRecvClosed(w) ==
  /\ Alive
  /\ wpc[w] = "select"
  /\ LookUpChan = << >>
  /\ lookUpClosed
  /\ Unpack(ZeroJob.Data).err
  /\ hist' = Parsed(ZeroJob.Addr)
  /\ UNCHANGED << chanVars, pcOpen, stopVars, listenerVars, workerVars, wrpc,
                  panic, benchVars >>

\* The upstream call made for question wQi[w] returns: call is the resolver
\* that was selected and the reply of its upstream.
WorkerResumes(w, call) ==
  /\ Alive
  /\ wpc[w] = "call"
  /\ LET s == ResolveQuestion(Unpack(wJob[w].Data), wResp[w], call)
     IN  IF s.next = "continue"
           THEN WorkerBecomes(w, EnterLoop(wJob[w], s.msg, wQi[w] + 1))
           ELSE WorkerBecomes(w, AfterResolve(wJob[w], s))
  /\ UNCHANGED << chanVars, pcOpen, stopVars, listenerVars, wrpc, hist,
                  benchVars >>

WorkerReturn(w) == \E call \in Calls : WorkerResumes(w, call)

\* The calls in which the selected upstream answers successfully: a
\* successful response with records, over HTTPS with status 200.
Answered ==
  {c \in Calls : /\ ~c.reply.err
                 /\ c.reply.Rcode = RcodeSuccess
                 /\ c.reply.body = "records"
                 /\ c.reply.kind = "doh" => c.reply.http = 200}

WorkerAnswered(w) == \E call \in Answered : WorkerResumes(w, call)

\* The result job is enqueued with the return address of the datagram read
\* last.
WorkerSendStale(w) ==
  /\ Alive
  /\ wpc[w] = "send"
  /\ IF resultClosed
       THEN /\ panic' = "send on closed channel"
            /\ UNCHANGED << ResultChan, workerVars >>
       ELSE /\ Len(ResultChan) < Num
            /\ ResultChan' =
                 Append(ResultChan, [Addr |-> AddrOf(reads), Data |-> wResp[w]])
            /\ WorkerBecomes(w, AtSelect)
  /\ UNCHANGED << ShutDownChan, shutDownClosed, ListenerExitChan,
                  ResolverExitChan, WriterExitChan, ExitChan, LookUpChan,
                  lookUpClosed, resultClosed, pcOpen, stopVars,
                  listenerVars, wrpc, hist, benchVars >>

\* client.ResultChan <- newResult: blocks while the queue is full, panics
\* once it is closed.
WorkerSend(w) ==
  /\ Alive
  /\ wpc[w] = "send"
  /\ IF resultClosed
       THEN /\ panic' = "send on closed channel"
            /\ UNCHANGED << ResultChan, workerVars >>
       ELSE /\ Len(ResultChan) < Num
            /\ ResultChan' =
                 Append(ResultChan, [Addr |-> wJob[w].Addr, Data |-> wResp[w]])
            /\ WorkerBecomes(w, AtSelect)
  /\ UNCHANGED << ShutDownChan, shutDownClosed, ListenerExitChan,
                  ResolverExitChan, WriterExitChan, ExitChan, LookUpChan,
                  lookUpClosed, resultClosed, pcOpen, stopVars,
                  listenerVars, wrpc, hist, benchVars >>

\* ------------------------------------------ the RR reconstructor, by field

\* The two copies of constructResource in the package (client.go and
\* utils.go): a build links one of them.
Copies == {"client.go", "utils.go"}

\* uint32(x) of a float64 outside the range of uint32 is implementation
\* dependent: the target wraps it or saturates.
Conversions == {"wrap", "saturate"}

Builds == [copy : Copies, conv : Conversions]

\* A JSON value of an answer object is [t |-> its JSON type or "absent",
\* v |-> the value when it has the type the code asserts].  A name is the
\* sequence of its characters, a data string the sequence of its tokens (the
\* parts between single spaces: strings.Split never returns an empty list).
JAbsent(zero) == [t |-> "absent", v |-> zero]
JWrong(t, zero) == [t |-> t, v |-> zero]

\* Tokens: a decimal integer, a word that is none, an IPv4 literal and a
\* quoted string.
Tokens == {"7", "w"}
IPLiteral == << "1.2.3.4" >>
QuotedString == << "\"t\"" >>

DataStrings(n) ==
  UNION {[1..k -> Tokens] : k \in 1..n} \cup {IPLiteral, QuotedString}

\* strconv.Atoi: the value, or 0 and an error.
Atoi(tok) == IF tok = "7" THEN [err |-> FALSE, v |-> 7] ELSE [err |-> TRUE, v |-> 0]

\* net.ParseIP: nil when the string is no IP literal.
ParseIP(data) == IF data = IPLiteral THEN data ELSE << >>

\* strconv.Unquote: an error unless the string is a quoted Go string.
Unquote(data) ==
  IF data = QuotedString THEN [err |-> FALSE, v |-> << "t" >>]
  ELSE [err |-> TRUE, v |-> << >>]

\* dns.Fqdn: a dot is appended unless the name ends with one.
Fqdn(name) ==
  IF Len(name) > 0 /\ name[Len(name)] = "." THEN name ELSE Append(name, ".")

\* A whole number x >= 0 is held as its two halves: x = hi * 2^16 + lo with
\* lo < 2^16.  uint32(x) of a float64 holding x: x itself when it fits.
Uint32(x) ==
  IF x.hi < 2^16 THEN x
  ELSE IF build.conv = "wrap"
         THEN [hi |-> x.hi % 2^16, lo |-> x.lo]
         ELSE [hi |-> 2^16 - 1, lo |-> 2^16 - 1]

\* A resource record: its header, and its rdata as the strings and the
\* numbers it holds.  NilRR is the nil dns.RR.
NilRR ==
  [Name |-> << >>, Rrtype |-> 0, Class |-> "", Ttl |-> [hi |-> 0, lo |-> 0],
   strs |-> << >>, nums |-> << >>]

\* The outcomes of constructResource.
RRPanics(why) == [panic |-> why, err |-> FALSE, rr |-> NilRR]
RRFails == [panic |-> "none", err |-> TRUE, rr |-> NilRR]
RRIs(hdr, strs, nums) ==
  [panic |-> "none", err |-> FALSE,
   rr |-> [Name |-> hdr.Name, Rrtype |-> hdr.Rrtype, Class |-> hdr.Class,
           Ttl |-> hdr.Ttl, strs |-> strs, nums |-> nums]]

\* The cases of the switch on answer["type"]; case 16 exists in one copy.
SwitchCases ==
  IF build.copy = "utils.go"
    THEN {1, 2, 5, 6, 12, 15, 16, 28, 33, 46, 47}
    ELSE {1, 2, 5, 6, 12, 15, 28, 33, 46, 47}

\* The body of a case, for the tokens d of answer["data"].(string): an index
\* past the end of resourceData panics; of several Atoi results assigned to
\* the same err, only the last is tested.
CaseBody(type, hdr, d) ==
  CASE type \in {1, 28} -> RRIs(hdr, ParseIP(d), << >>)
    [] type \in {2, 5, 12} -> RRIs(hdr, d, << >>)
    [] type = 6 ->
         IF Len(d) < 7 THEN RRPanics("index out of range")
         ELSE IF Atoi(d[7]).err THEN RRFails
         ELSE RRIs(hdr, << d[1], d[2] >>, [i \in 1..5 |-> Atoi(d[i + 2]).v])
    [] type = 15 ->
         IF Atoi(d[1]).err THEN RRFails
         ELSE IF Len(d) < 2 THEN RRPanics("index out of range")
         ELSE RRIs(hdr, << d[2] >>, << Atoi(d[1]).v >>)
    [] type = 16 ->
         IF Unquote(d).err THEN RRFails
         ELSE RRIs(hdr, Unquote(d).v, << >>)
    [] type = 33 ->
         IF Len(d) < 3 THEN RRPanics("index out of range")
         ELSE IF Atoi(d[3]).err THEN RRFails
         ELSE IF Len(d) < 4 THEN RRPanics("index out of range")
         ELSE RRIs(hdr, << d[4] >>, [i \in 1..3 |-> Atoi(d[i]).v])
    [] type = 46 ->
         IF Len(d) < 7 THEN RRPanics("index out of range")
         ELSE IF Atoi(d[7]).err THEN RRFails
         ELSE IF Len(d) < 9 THEN RRPanics("index out of range")
         ELSE RRIs(hdr, << d[1], d[8], d[9] >>,
                   [i \in 1..6 |-> Atoi(d[i + 1]).v])
    [] type = 47 -> RRIs(hdr, d, << >>)

\* constructResource(answer): the header's three type assertions, then the
\* switch; every case, the default too, asserts that data is a string.
constructResource(answer) ==
  IF answer.name.t # "string" \/ answer.type.t # "number"
       \/ answer.TTL.t # "number" \/ answer.data.t # "string"
    THEN RRPanics("interface conversion")
    ELSE IF answer.type.v \notin SwitchCases
           THEN RRFails
           ELSE CaseBody(answer.type.v,
                         [Name |-> Fqdn(answer.name.v),
                          Rrtype |-> answer.type.v % 2^16,
                          Class |-> "IN",
                          Ttl |-> Uint32(answer.TTL.v)],
                         answer.data.v)

\* A dns.Msg by field: the header bits and the three sections.  EmptyFull
\* is new(dns.Msg), NilFull a nil *dns.Msg.
EmptyFull ==
  [nil |-> FALSE, Id |-> 0, Response |-> FALSE, Rcode |-> RcodeSuccess,
   TC |-> FALSE, RD |-> FALSE, RA |-> FALSE,
   Answer |-> << >>, Ns |-> << >>, Extra |-> << >>]

NilFull == [EmptyFull EXCEPT !.nil = TRUE]

\* responseM.SetReply(queryM), by field: id and RD bit of the query,
\* response bit set, rcode NOERROR; the sections are not touched.
SetReplyFull(m, query) ==
  [m EXCEPT !.Id = query.Id, !.Response = TRUE, !.RD = query.RD,
            !.Rcode = RcodeSuccess]

\* One loop of constructResponseMessage over the elements of a section from
\* element i on, appending to rrs: an element that is no JSON object fails
\* its type assertion; the first error of constructResource is returned.
RECURSIVE constructFrom(_, _, _)
constructFrom(list, i, rrs) ==
  IF i > Len(list)
    THEN [panic |-> "none", err |-> FALSE, rrs |-> rrs]
    ELSE IF ~list[i].obj
           THEN [panic |-> "interface conversion", err |-> FALSE, rrs |-> << >>]
           ELSE LET r == constructResource(list[i])
                IN  IF r.panic # "none" \/ r.err
                      THEN [panic |-> r.panic, err |-> r.err, rrs |-> << >>]
                      ELSE constructFrom(list, i + 1, Append(rrs, r.rr))

\* A section of the JSON object: absent (the slice stays nil), or asserted
\* to be a list.
constructSection(section) ==
  CASE section.t = "absent" -> [panic |-> "none", err |-> FALSE, rrs |-> << >>]
    [] section.t = "array" -> constructFrom(section.v, 1, << >>)
    [] OTHER -> [panic |-> "interface conversion", err |-> FALSE, rrs |-> << >>]

\* A flag of the JSON object: the default when the key is absent, else
\* asserted to be a bool.
FlagOf(flag, default) ==
  CASE flag.t = "absent" -> [panic |-> "none", v |-> default]
    [] flag.t = "bool" -> [panic |-> "none", v |-> flag.v]
    [] OTHER -> [panic |-> "interface conversion", v |-> default]

\* The default of RD when the key is absent, as a buggy port would have it:
\* the bit SetReply copied from the query is left alone.
constructFlagsKeepRD(m, responseMap) ==
  LET tc == FlagOf(responseMap.TC, FALSE)
      rd == FlagOf(responseMap.RD, m.RD)
      ra == FlagOf(responseMap.RA, TRUE)
  IN  [panic |-> IF tc.panic # "none" \/ rd.panic # "none" \/ ra.panic # "none"
                   THEN "interface conversion" ELSE "none",
       TC |-> tc.v, RD |-> rd.v, RA |-> ra.v]

\* The three flags of constructResponseMessage: TC defaults to false, RD and
\* RA to true.
constructFlags(m, responseMap) ==
  LET tc == FlagOf(responseMap.TC, FALSE)
      rd == FlagOf(responseMap.RD, TRUE)
      ra == FlagOf(responseMap.RA, TRUE)
  IN  [panic |-> IF tc.panic # "none" \/ rd.panic # "none" \/ ra.panic # "none"
                   THEN "interface conversion" ELSE "none",
       TC |-> tc.v, RD |-> rd.v, RA |-> ra.v]

\* constructResponseMessage(responseM, responseMap), by field: the three
\* sections are rebuilt into local slices, then the flags and at last the
\* sections of responseM are assigned; an error returns before any of it.
\* Status is not read.
constructMessage(m, responseMap) ==
  LET an == constructSection(responseMap.Answer)
      ns == constructSection(responseMap.Authority)
      ex == constructSection(responseMap.Additional)
      fl == constructFlags(m, responseMap)
      stop(x) == x.panic # "none" \/ x.err
      out(x) == [panic |-> x.panic, err |-> x.err, msg |-> m]
  IN  CASE stop(an) -> out(an)
        [] ~stop(an) /\ stop(ns) -> out(ns)
        [] ~stop(an) /\ ~stop(ns) /\ stop(ex) -> out(ex)
        [] OTHER ->
             IF fl.panic # "none"
               THEN [panic |-> fl.panic, err |-> FALSE, msg |-> m]
               ELSE [panic |-> "none", err |-> FALSE,
                     msg |-> [m EXCEPT !.TC = fl.TC, !.RD = fl.RD,
                                       !.RA = fl.RA, !.Answer = an.rrs,
                                       !.Ns = ns.rrs, !.Extra = ex.rrs]]

\* The port-443 branch of Resolve's loop for one question whose DoH call
\* returned responseMap: SetReply, then constructResponseMessage.  made is
\* what constructResponseMessage left in responseM; the loop continues with
\* it, or Resolve returns (nil, err), or the process panics.
ResolveDoHQuestion(query, responseM, responseMap) ==
  LET c == constructMessage(SetReplyFull(responseM, query), responseMap)
  IN  [next |-> IF c.panic # "none" THEN "panic"
                ELSE IF c.err THEN "return" ELSE "continue",
       panic |-> c.panic, err |-> c.err, made |-> c.msg,
       msg |-> IF c.panic = "none" /\ ~c.err THEN c.msg ELSE NilFull]

\* ---------------------------------------------- what an upstream can send

\* The JSON answers reconstructed alone: every well-shaped answer with a
\* data string of up to MaxTokens tokens, and every shape of the four
\* fields with a data string of one token.
StrNames == {<< "a" >>, << "a", "." >>}
NameVals == {JAbsent(<< >>), JWrong("number", << >>)} \cup [t : {"string"}, v : StrNames]

TypeSamples == {1, 2, 5, 6, 12, 15, 16, 28, 33, 46, 47, 99}
TypeVals == {JAbsent(0), JWrong("string", 0)} \cup [t : {"number"}, v : TypeSamples]

\* TTLs, by halves: 300 and 2^32 + 300.
TTLSamples == {[hi |-> 0, lo |-> 300], [hi |-> 2^16, lo |-> 300]}
TTLVals ==
  {JAbsent([hi |-> 0, lo |-> 0]), JWrong("string", [hi |-> 0, lo |-> 0])}
    \cup [t : {"number"}, v : TTLSamples]

DataVals(n) ==
  {JAbsent(<< >>), JWrong("number", << >>)} \cup [t : {"string"}, v : DataStrings(n)]

AnswerInputs ==
  [obj : {TRUE}, name : [t : {"string"}, v : StrNames],
   type : [t : {"number"}, v : TypeSamples],
   TTL : [t : {"number"}, v : TTLSamples], data : DataVals(MaxTokens)]
  \cup [obj : {TRUE}, name : NameVals, type : TypeVals, TTL : TTLVals,
        data : DataVals(1)]

\* The elements of the sections of a JSON reply: an A record, an NS record,
\* a record of a type no copy supports with and without its data, a record
\* without its name, and an element that is no JSON object.
ElemOf(name, type, data) ==
  [obj |-> TRUE, name |-> name, type |-> [t |-> "number", v |-> type],
   TTL |-> [t |-> "number", v |-> [hi |-> 0, lo |-> 300]], data |-> data]

ElemA == ElemOf([t |-> "string", v |-> << "a" >>], 1, [t |-> "string", v |-> IPLiteral])
ElemNS == ElemOf([t |-> "string", v |-> << "a", "." >>], 2, [t |-> "string", v |-> << "w" >>])
ElemUnsupported == ElemOf([t |-> "string", v |-> << "a" >>], 99, [t |-> "string", v |-> << "w" >>])
ElemUnsupportedNoData == ElemOf([t |-> "string", v |-> << "a" >>], 99, JAbsent(<< >>))
ElemNoName == ElemOf(JAbsent(<< >>), 1, [t |-> "string", v |-> IPLiteral])
ElemNotObject == [ElemNoName EXCEPT !.obj = FALSE]

AnswerElems == {ElemA, ElemUnsupported, ElemUnsupportedNoData, ElemNoName, ElemNotObject}
OtherElems == {ElemNS, ElemUnsupported}

\* A section: absent, not a list, or a list of up to n elements.
SectionVals(elems, n) ==
  {JAbsent(<< >>), JWrong("string", << >>)}
    \cup [t : {"array"}, v : UNION {[1..k -> elems] : k \in 0..n}]

\* A flag: absent, not a bool, or a bool.
FlagVals == {JAbsent(FALSE), JWrong("string", FALSE)} \cup [t : {"bool"}, v : BOOLEAN]

ResponseMaps ==
  [Answer : SectionVals(AnswerElems, MaxRecords),
   Authority : SectionVals(OtherElems, 1) \ {JWrong("string", << >>)},
   Additional : SectionVals({ElemNS}, 1),
   TC : FlagVals, RD : FlagVals, RA : FlagVals]

\* The queries, by id and RD bit.
CodecQueries == [Id : {IdOf(1)}, RD : BOOLEAN]

\* The JSON reply to an earlier question of the same query.
EarlierMap ==
  [Answer |-> [t |-> "array", v |-> << ElemA >>], Authority |-> JAbsent(<< >>),
   Additional |-> JAbsent(<< >>), TC |-> [t |-> "bool", v |-> TRUE],
   RD |-> JAbsent(FALSE), RA |-> JAbsent(FALSE)]

\* responseM at the head of Resolve's loop: new(dns.Msg) at the first
\* question, what the port-443 branch left at a later one.
LoopHeadMsgs(query) ==
  {EmptyFull, ResolveDoHQuestion(query, EmptyFull, EarlierMap).msg}

\* ----------------------------- Resolve at its interface, and the upstreams

\* server.Init, as AddUpstream calls it on a new Server whose Name is set:
\* the address, the port, the accept header; count is the counter of the
\* earlier Server, which starts at 0 (the later Server has no such field: it
\* stays 0).
ServerOf(r) ==
  [Name |-> r.Name, Upstream |-> r.Name, Port |-> r.Port,
   Header |-> [accept |-> IF r.Name = "Google"
                            THEN "application/dns-message"
                            ELSE "application/dns-json"],
   count |-> 0]

\* client.Resolvers after the calls of AddUpstream.
Pool == [i \in 1..Len(Resolvers) |-> ServerOf(Resolvers[i])]

\* The opcodes of the queries: a standard query and an update.
Opcodes == {0, 5}

\* The questions of the queries, by name.
QNames == {"a.", "b."}

CallQueries ==
  [Id : {IdOf(1)}, Opcode : Opcodes,
   Question : UNION {[1..n -> QNames] : n \in 0..MaxBenchQuestions}]

\* How many records a successful reply carries: one, and enough of them
\* that their wire form alone is longer than the listener's buffer.
AnswerCounts == {1, 64}

\* What the upstream with the i-th pool member's name answers to every
\* question: a reply, and the number of its records.  A classical upstream
\* answers over UDP, where the long reply does not fit.
UpstreamAnswers(i) ==
  {a \in [reply : {y \in RepliesOf(i) : y.http \in {0, 200}},
          answers : {0} \cup AnswerCounts] :
     /\ (a.reply.body = "records") = (a.answers > 0)
     /\ a.reply.kind = "dns" => a.answers <= 1}

\* len(buffer) of the listener's buffer.
BufferLen == 1024

\* A message with its opcode, its question section and the number of its
\* records.  new(dns.Msg):
EmptyCallMsg ==
  [Id |-> 0, Response |-> FALSE, Opcode |-> 0, Rcode |-> 0,
   Question |-> << >>, Answer |-> "empty", answers |-> 0]

\* A nil *dns.Msg.
NilCallMsg == [EmptyCallMsg EXCEPT !.Answer = "nil"]

\* SetReply with the whole question section of the query.
SetReplyEveryQuestion(m, query) ==
  [m EXCEPT !.Id = query.Id, !.Response = TRUE, !.Opcode = query.Opcode,
            !.Rcode = RcodeSuccess, !.Question = query.Question]

\* responseM.SetReply(queryM), in full: id and opcode are the query's, the
\* message is a response, and the question section is the first question of
\* the query.
SetReplyCall(m, query) ==
  [m EXCEPT !.Id = query.Id, !.Response = TRUE, !.Opcode = query.Opcode,
            !.Rcode = RcodeSuccess,
            !.Question = IF Len(query.Question) > 0
                           THEN << query.Question[1] >>
                           ELSE @]

\* The message dnsClient.Exchange unpacked, in full: the upstream echoes the
\* header and the question section of the query.
ExchangeCallMsg(query, up) ==
  [Id |-> query.Id, Response |-> TRUE, Opcode |-> query.Opcode,
   Rcode |-> up.reply.Rcode, Question |-> query.Question,
   Answer |-> up.reply.body, answers |-> up.answers]

\* len(responseBytes) after responseM.Pack(): the 12 bytes of the header,
\* each question (a one-letter name, type and class: 7 bytes) and each
\* record (an address record under a compressed name: 16 bytes).
PackLen(m) == 12 + 7 * Len(m.Question) + 16 * m.answers

\* The Server a *Server designates: a member of the pool, an element of the
\* variadic argument, or the local variable of the earlier Resolve.
Target(st, ref) ==
  CASE ref.in = "pool" -> st.pool[ref.at]
    [] ref.in = "arg" -> st.arg[ref.at]
    [] OTHER -> st.local

\* An assignment through a *Server.
Store(st, ref, server) ==
  CASE ref.in = "pool" -> [st EXCEPT !.pool[ref.at] = server]
    [] ref.in = "arg" -> [st EXCEPT !.arg[ref.at] = server]
    [] OTHER -> [st EXCEPT !.local = server]

\* The reply of the upstream a Server names.
AnswerOf(call, server) ==
  call.answers[CHOOSE i \in DOMAIN Pool : Pool[i].Name = server.Name]

\* What DoH(server, question) of server.go does to *server: it reads Port,
\* Upstream, Header, Name and httpClient, and assigns nothing.
DoHServer(server) == server

\* What DoH(server, question) of the earlier version does to *server:
\* server.count++.
DoHServerEarlier(server) == [server EXCEPT !.count = @ + 1]

\* The selection that takes the pool's choice whatever was passed.
SelectIgnoresArgument(st, given, pick) ==
  [st |-> st, ref |-> [in |-> "pool", at |-> pick]]

\* if len(resolvers) == 0 { resolver = client.shard(questionString) } else
\* { resolver = &resolvers[0] }, where shard returns
\* &client.Resolvers[rand.Intn(len(client.Resolvers))] (pick).
SelectResolver(st, given, pick) ==
  IF Len(given) = 0
    THEN [st |-> st, ref |-> [in |-> "pool", at |-> pick]]
    ELSE [st |-> st, ref |-> [in |-> "arg", at |-> 1]]

\* The earlier selection with shard returning a pointer into the pool.
SelectEarlierByReference(st, given, pick) ==
  IF Len(given) = 0
    THEN [st |-> st, ref |-> [in |-> "pool", at |-> pick]]
    ELSE [st |-> [st EXCEPT !.local = st.arg[1]],
          ref |-> [in |-> "local", at |-> 0]]

\* The earlier selection: "var resolver Server", to which shard's result (a
\* Server, by value) or resolvers[0] is copied; DoH and DNS get &resolver.
SelectEarlier(st, given, pick) ==
  IF Len(given) = 0
    THEN [st |-> [st EXCEPT !.local = st.pool[pick]],
          ref |-> [in |-> "local", at |-> 0]]
    ELSE [st |-> [st EXCEPT !.local = st.arg[1]],
          ref |-> [in |-> "local", at |-> 0]]

\* The state of a call of Resolve when it starts: the pool, the variadic
\* argument, the local resolver (the zero Server), responseM, the upstreams
\* selected and those contacted so far, and no result job.
CallStart(call) ==
  [pool |-> Pool, arg |-> call.given,
   local |-> [Name |-> "", Upstream |-> "", Port |-> 0,
              Header |-> [accept |-> ""], count |-> 0],
   msg |-> EmptyCallMsg, selected |-> << >>, contacted |-> << >>,
   len |-> 0]

\* How a call ends: Resolve returned (msg, err), or a panic.
CallEnds(st, by, next, err, why, msg) ==
  [by |-> by, next |-> next, err |-> err, panic |-> why, pool |-> st.pool,
   arg |-> st.arg, local |-> st.local, msg |-> msg,
   selected |-> st.selected, contacted |-> st.contacted, len |-> st.len]

\* Resolve of client.go from question qi on.
RECURSIVE ResolveCallFrom(_, _, _)
ResolveCallFrom(call, st, qi) ==
  IF qi > Len(call.query.Question)
    THEN CallEnds(st, "client.go", "return", FALSE, "none", st.msg)
    ELSE
      LET sel == SelectResolver(st, call.given, call.picks[qi])
          server == Target(sel.st, sel.ref)
          up == AnswerOf(call, server)
          s1 == [sel.st EXCEPT !.selected = Append(@, server)]
          s2 == [s1 EXCEPT !.contacted = Append(@, server)]
      IN  CASE server.Port = 443 ->
                 LET s3 == Store(s2, sel.ref, DoHServer(server))
                     c == constructResponseMessage(
                            SetReplyCall(s3.msg, call.query), up.reply)
                 IN  IF DoH(up.reply).err
                       THEN CallEnds(s3, "client.go", "return", TRUE, "none",
                                     NilCallMsg)
                       ELSE IF c.panic # "none"
                              THEN CallEnds(s3, "client.go", "panic", FALSE,
                                            c.panic, NilCallMsg)
                              ELSE IF c.err
                                     THEN CallEnds(s3, "client.go", "return",
                                                   TRUE, "none", NilCallMsg)
                                     ELSE ResolveCallFrom(
                                            call,
                                            [s3 EXCEPT !.msg =
                                               [c.msg EXCEPT !.answers =
                                                               up.answers]],
                                            qi + 1)
            [] server.Port = 53 ->
                 IF DNS(call.query, up.reply).err
                   THEN CallEnds(s2, "client.go", "return", TRUE, "none",
                                 NilCallMsg)
                   ELSE CallEnds(s2, "client.go", "return", FALSE, "none",
                                 IF DNS(call.query, up.reply).msg = NilMsg
                                   THEN NilCallMsg
                                   ELSE ExchangeCallMsg(call.query, up))
            [] OTHER -> ResolveCallFrom(call, s1, qi + 1)

\* client.Resolve(queryM, resolvers...)
ResolveCall(call) ==
  IF Len(call.given) > 1
    THEN CallEnds(CallStart(call), "client.go", "return", TRUE, "none",
                  NilCallMsg)
    ELSE ResolveCallFrom(call, CallStart(call), 1)

\* The worker of client.go after Resolve returned r for the job: an error is
\* logged; a nil responseM panics in Pack; a Pack error is logged; otherwise
\* the result job carries the packed bytes.
PackCall(r) ==
  IF r.next = "panic" \/ r.err
    THEN r
    ELSE IF r.msg = NilCallMsg
           THEN [r EXCEPT !.next = "panic",
                          !.panic = "nil pointer dereference"]
           ELSE IF Pack(r.msg).err
                  THEN [r EXCEPT !.err = TRUE]
                  ELSE [r EXCEPT !.next = "send", !.len = PackLen(r.msg)]

\* Resolve of the earlier version from question qi on: every question packs
\* its own responseM into responseBytes, and an error returns without a
\* result job.
RECURSIVE ResolveEarlierFrom(_, _, _)
ResolveEarlierFrom(call, st, qi) ==
  IF qi > Len(call.query.Question)
    THEN CallEnds(st, "part_000", "send", FALSE, "none", st.msg)
    ELSE
      LET sel == SelectEarlier(st, call.given, call.picks[qi])
          server == Target(sel.st, sel.ref)
          up == AnswerOf(call, server)
          s1 == [sel.st EXCEPT !.selected = Append(@, server)]
          s2 == [s1 EXCEPT !.contacted = Append(@, server)]
      IN  CASE server.Port = 443 ->
                 LET s3 == Store(s2, sel.ref, DoHServerEarlier(server))
                     c == constructResponseMessage(
                            SetReplyCall(EmptyCallMsg, call.query), up.reply)
                     m == [c.msg EXCEPT !.answers = up.answers]
                 IN  IF DoH(up.reply).err
                       THEN CallEnds(s3, "part_000", "return", TRUE, "none",
                                     NilCallMsg)
                       ELSE IF c.panic # "none"
                              THEN CallEnds(s3, "part_000", "panic", FALSE,
                                            c.panic, NilCallMsg)
                              ELSE IF c.err \/ Pack(m).err
                                     THEN CallEnds(s3, "part_000", "return",
                                                   TRUE, "none", NilCallMsg)
                                     ELSE ResolveEarlierFrom(
                                            call,
                                            [s3 EXCEPT !.msg = m,
                                                       !.len = PackLen(m)],
                                            qi + 1)
            [] server.Port = 53 ->
                 IF up.reply.err
                   THEN CallEnds(s2, "part_000", "panic", FALSE,
                                 "nil pointer dereference", NilCallMsg)
                   ELSE ResolveEarlierFrom(
                          call,
                          [s2 EXCEPT !.msg = ExchangeCallMsg(call.query, up),
                                     !.len = PackLen(ExchangeCallMsg(
                                                       call.query, up))],
                          qi + 1)
            [] OTHER -> ResolveEarlierFrom(call, s1, qi + 1)

\* client.Resolve(resolvers...) of the earlier version, for the job it took
\* from the lookup queue: responseBytes starts as make([]byte, 1024).
ResolveEarlier(call) ==
  IF Len(call.given) > 1
    THEN CallEnds(CallStart(call), "part_000", "return", TRUE, "none",
                  NilCallMsg)
    ELSE ResolveEarlierFrom(call, [CallStart(call) EXCEPT !.len = BufferLen],
                            1)

\* How many resolvers a caller passes at most.
MaxGiven == 2

\* The resolvers a caller passes: none, or members of the pool by value.
Givens == UNION {[1..n -> {Pool[i] : i \in shard}] : n \in 0..MaxGiven}

\* What the upstreams answer, each in its own protocol.
AnswerMaps ==
  {a \in [DOMAIN Pool -> UNION {UpstreamAnswers(i) : i \in DOMAIN Pool}] :
     \A i \in DOMAIN Pool : a[i] \in UpstreamAnswers(i)}

NoCall ==
  [query |-> [Id |-> 0, Opcode |-> 0, Question |-> << >>], given |-> << >>,
   picks |-> << >>, answers |-> << >>]

PendingCall ==
  CallEnds(CallStart(NoCall), "pending", "pending", FALSE, "none",
           NilCallMsg)

\* ------------------------------------------------------ the specifications

\* Nothing has been reconstructed alone.
PendingRR == RRPanics("pending")
PendingRes ==
  [next |-> "pending", panic |-> "none", err |-> FALSE, made |-> NilFull,
   msg |-> NilFull]

CodecIdle ==
  /\ build = [copy |-> "client.go", conv |-> "wrap"]
  /\ cAnswer = ElemA
  /\ cRR = PendingRR
  /\ cQuery = [Id |-> 0, RD |-> FALSE]
  /\ cMsg = EmptyFull
  /\ cMap = EarlierMap
  /\ cRes = PendingRes

\* No query has been resolved alone.
CallIdle ==
  /\ iCall = NoCall
  /\ iOut = PendingCall

\* The pipeline.
Init ==
  /\ PipelineInit
  /\ rJob = ZeroJob
  /\ rCalls = << >>
  /\ rOut = Pending
  /\ CodecIdle
  /\ CallIdle

StopNext ==
  \/ StopWaitSignal
  \/ StopSignalListener
  \/ StopClosePC
  \/ StopSignalResolvers
  \/ StopSignalWriter
  \/ StopCloseShutDown
  \/ StopCloseLookUp
  \/ StopCloseResult
  \/ StopWaitAcks
  \/ StopReturn

Next ==
  \/ Signal
  \/ StopNext
  \/ ListenerSelect
  \/ ListenerRead
  \/ ListenerReadError
  \/ ListenerSend
  \/ WriterExit
  \/ WriterWrite
  \/ WriterRecvClosed
  \/ \E w \in Workers : WorkerExit(w)
  \/ \E w \in Workers : WorkerRecv(w)
  \/ \E w \in Workers : WorkerRecvClosed(w)
  \/ \E w \in Workers : WorkerReturn(w)
  \/ \E w \in Workers : WorkerSend(w)

Spec == Init /\ [][Next]_vars

\* The pipeline under the scheduler's fairness: every goroutine that can run
\* does run, every upstream call returns, and a select with several ready
\* cases picks each of them now and then (it picks at random).
FairSpec ==
  /\ Spec
  /\ WF_vars(StopNext)
  /\ WF_vars(ListenerSelect)
  /\ WF_vars(ListenerReadError)
  /\ WF_vars(ListenerSend)
  /\ SF_vars(WriterExit)
  /\ WF_vars(WriterWrite)
  /\ \A w \in Workers :
       /\ SF_vars(WorkerExit(w))
       /\ WF_vars(WorkerRecv(w))
       /\ WF_vars(WorkerReturn(w))
       /\ WF_vars(WorkerSend(w))

\* The proxy without traffic, its operator repeating the shutdown signal:
\* no datagram arrives (ReadFrom returns only with an error), so the queues
\* stay empty.
RepeatedNext ==
  \/ SignalRepeated
  \/ StopNext
  \/ ListenerSelect
  \/ ListenerReadError
  \/ WriterExit
  \/ WriterRecvClosed
  \/ \E w \in Workers : WorkerExit(w)
  \/ \E w \in Workers : WorkerRecvClosed(w)

SpecRepeated == Init /\ [][RepeatedNext]_vars

\* The proxy while Running: no shutdown signal is delivered, so Stop stays
\* at its receive, and every upstream call is answered successfully.
RunningNext ==
  \/ ListenerSelect
  \/ ListenerRead
  \/ ListenerReadError
  \/ ListenerSend
  \/ WriterWrite
  \/ \E w \in Workers : WorkerRecv(w)
  \/ \E w \in Workers : WorkerAnswered(w)
  \/ \E w \in Workers : WorkerSend(w)

\* Weak fairness of every task: a task that can step does step, and an
\* upstream call returns.  Nothing is asked of the socket: ReadFrom may
\* never return.
FairRunning ==
  /\ Init
  /\ [][RunningNext]_vars
  /\ WF_vars(ListenerSelect)
  /\ WF_vars(ListenerSend)
  /\ WF_vars(WriterWrite)
  /\ \A w \in Workers :
       /\ WF_vars(WorkerRecv(w))
       /\ WF_vars(WorkerAnswered(w))
       /\ WF_vars(WorkerSend(w))

\* One job handled alone: the job and the upstream calls are drawn, and the
\* worker's handling is applied to them.
ResolveInit ==
  /\ PipelineInit
  /\ rJob \in {[Addr |-> AddrOf(1), Data |-> d]
               : d \in DatagramsUpTo(1, MaxBenchQuestions)}
  /\ rCalls \in [1..rJob.Data.nq -> Calls]
  /\ rOut = Pending
  /\ CodecIdle
  /\ CallIdle

HandleOne ==
  /\ rOut = Pending
  /\ rOut' = HandleJob(rJob, rCalls)
  /\ UNCHANGED << chanVars, pcOpen, stopVars, listenerVars, workerVars, wrpc,
                  panic, hist, rJob, rCalls, codecVars, iCall, iOut >>

SpecResolve == ResolveInit /\ [][HandleOne]_vars

\* One JSON answer reconstructed alone, under either build.
ResourceInit ==
  /\ PipelineInit
  /\ rJob = ZeroJob
  /\ rCalls = << >>
  /\ rOut = Pending
  /\ build \in Builds
  /\ cAnswer \in AnswerInputs
  /\ cRR = PendingRR
  /\ cQuery = [Id |-> 0, RD |-> FALSE]
  /\ cMsg = EmptyFull
  /\ cMap = EarlierMap
  /\ cRes = PendingRes
  /\ CallIdle

ReconstructResource ==
  /\ cRR = PendingRR
  /\ cRR' = constructResource(cAnswer)
  /\ UNCHANGED << chanVars, pcOpen, stopVars, listenerVars, workerVars, wrpc,
                  panic, hist, rJob, rCalls, rOut, build, cAnswer, cQuery, cMsg,
                  cMap, cRes, iCall, iOut >>

SpecResource == ResourceInit /\ [][ReconstructResource]_vars

\* One DoH reply reconstructed alone: a question of a query on the port-443
\* branch of Resolve's loop, with responseM as the loop has it there.
ConstructInit ==
  /\ PipelineInit
  /\ rJob = ZeroJob
  /\ rCalls = << >>
  /\ rOut = Pending
  /\ build \in [copy : Copies, conv : {"wrap"}]
  /\ cAnswer = ElemA
  /\ cRR = PendingRR
  /\ cQuery \in CodecQueries
  /\ cMsg \in LoopHeadMsgs(cQuery)
  /\ cMap \in ResponseMaps
  /\ cRes = PendingRes
  /\ CallIdle

ReconstructReply ==
  /\ cRes = PendingRes
  /\ cRes' = ResolveDoHQuestion(cQuery, cMsg, cMap)
  /\ UNCHANGED << chanVars, pcOpen, stopVars, listenerVars, workerVars, wrpc,
                  panic, hist, rJob, rCalls, rOut, build, cAnswer, cRR, cQuery,
                  cMsg, cMap, iCall, iOut >>

SpecConstruct == ConstructInit /\ [][ReconstructReply]_vars

\* One query resolved and packed alone, by client.go or by the earlier
\* version, whichever the build holds: the query, the resolvers passed, what
\* shard picks for each question, and what each upstream answers.
CallInit ==
  /\ PipelineInit
  /\ rJob = ZeroJob
  /\ rCalls = << >>
  /\ rOut = Pending
  /\ CodecIdle
  /\ \E q \in CallQueries, g \in Givens, a \in AnswerMaps :
       \E p \in [1..Len(q.Question) -> shard] :
         iCall = [query |-> q, given |-> g, picks |-> p, answers |-> a]
  /\ iOut = PendingCall

ResolveOnce ==
  /\ iOut = PendingCall
  /\ iOut' = PackCall(ResolveCall(iCall))
  /\ UNCHANGED << chanVars, pcOpen, stopVars, listenerVars, workerVars, wrpc,
                  panic, hist, rJob, rCalls, rOut, codecVars, iCall >>

ResolveOnceEarlier ==
  /\ iOut = PendingCall
  /\ iOut' = ResolveEarlier(iCall)
  /\ UNCHANGED << chanVars, pcOpen, stopVars, listenerVars, workerVars, wrpc,
                  panic, hist, rJob, rCalls, rOut, codecVars, iCall >>

SpecCall == CallInit /\ [][ResolveOnce \/ ResolveOnceEarlier]_vars

\* ----------------------------------------------------------------- claims

\* The query a worker is handling.
QueryOf(w) == Unpack(wJob[w].Data)

\* C1: every result job a worker is about to enqueue for a query it parsed
\* carries a response whose header id is the query's id, for every number
\* of questions and every port of the selected upstream.
IdEcho ==
  \A w \in Workers : wpc[w] = "send" => wResp[w].Id = QueryOf(w).Id

\* C2 (its safety part): once Stop has taken the shutdown signal, no task
\* ends the process by sending on a channel Stop closed, and the pipeline
\* can step until Stop has returned.
ShutdownTerminates ==
  stopPc # "wait_signal" =>
    /\ panic # "send on closed channel"
    /\ (panic = "none" => (stopPc = "done" \/ ENABLED Next))

\* C3: no task acknowledges twice, and when Stop leaves its wait it has
\* received N+2 acknowledgements, one of each task, and every task has
\* returned.
StopAwaitsEveryTask ==
  /\ \A t \in Tasks : acks[t] + ExitChan[t] <= 1
  /\ stopPc \in {"close_exit", "done"} =>
       /\ SumOver(acks, Tasks) = Num + 2
       /\ \A t \in Tasks : acks[t] = 1
       /\ lpc = "exited"
       /\ wrpc = "exited"
       /\ \A w \in Workers : wpc[w] = "exited"

StopReturned ==
  /\ stopPc = "done"
  /\ panic = "none"
  /\ \A t \in Tasks : acks[t] = 1

\* C4: once Stop has closed the result queue, no worker is at its send on
\* the result queue.
NoWorkerSendAfterClose ==
  resultClosed => \A w \in Workers : wpc[w] # "send"

\* C5: once Stop has taken the shutdown signal the listener enqueues no
\* lookup job, and it never sends on the closed lookup queue.
NoLookupAfterShutdown ==
  [][stopPc # "wait_signal" =>
       /\ ~(lpc = "send" /\ lpc' = "select")
       /\ ~(lpc = "send" /\ lookUpClosed /\ ENABLED ListenerSend)]_vars

\* C6: Stop sends the listener's exit signal and closes the socket before
\* any worker's exit signal, all N worker exit signals before the writer's,
\* the writer's before it closes the queues, closes both queues before it
\* receives an acknowledgement, and does none of it before it has taken the
\* shutdown signal.
ListenerSignalled == ListenerExitChan > 0 \/ lpc = "exited"
WriterSignalled == WriterExitChan > 0 \/ wrpc = "exited"
ResolverSignalsSent ==
  ResolverExitChan + Cardinality({w \in Workers : wpc[w] = "exited"})

ShutdownStepOrder ==
  [][/\ ResolverExitChan' > ResolverExitChan =>
          ListenerSignalled /\ ~pcOpen
     /\ WriterExitChan' > WriterExitChan =>
          ResolverSignalsSent = Num /\ ListenerSignalled /\ ~pcOpen
     /\ (lookUpClosed' # lookUpClosed \/ resultClosed' # resultClosed) =>
          WriterSignalled /\ ResolverSignalsSent = Num
     /\ acks' # acks => lookUpClosed /\ resultClosed
     /\ stopPc = "wait_signal" =>
          /\ ListenerExitChan' = 0 /\ ResolverExitChan' = 0
          /\ WriterExitChan' = 0
          /\ pcOpen' /\ ~lookUpClosed' /\ ~resultClosed'
          /\ acks' = acks]_vars

StopWaiting ==
  /\ stopPc = "wait_acks"
  /\ stopI = 1
  /\ lookUpClosed /\ resultClosed /\ ~pcOpen
  /\ panic = "none"

\* C7: before a shutdown signal is delivered, the listener, the writer and
\* every worker are running, whatever the stubs and the upstreams send.
NoSpontaneousExit ==
  signals = 0 =>
    /\ panic = "none"
    /\ lpc # "exited"
    /\ wrpc # "exited"
    /\ \A w \in Workers : wpc[w] # "exited"

\* The job handled alone: its query, what Resolve returns for it.
rQuery == Unpack(rJob.Data)
rResolve == Resolve(rQuery, rCalls)

\* C8: a worker ends up with a result job to enqueue exactly when parsing,
\* resolving and packing all succeeded; otherwise it holds nothing and is
\* back at its select.
AllSucceeded ==
  /\ ~rQuery.err
  /\ rResolve.panic = "none" /\ ~rResolve.err
  /\ rResolve.msg # NilMsg /\ ~Pack(rResolve.msg).err

PerJobDisposition ==
  rOut # Pending =>
    IF AllSucceeded
      THEN rOut.pc = "send" /\ rOut.panic = "none"
      ELSE rOut = Dropped

\* C9: when the upstream selected for the first question reports SERVFAIL
\* (rcode 2 on port 53, Status 2 in the DoH JSON), the worker drops the job
\* and is back at its select.
ServfailReported(call) ==
  /\ Resolvers[call.resolver].Port \in {53, 443}
  /\ ~call.reply.err
  /\ call.reply.Rcode = RcodeServerFailure

ServfailDropped ==
  (rOut # Pending /\ ~rQuery.err /\ rQuery.nq >= 1
     /\ ServfailReported(rCalls[1])) => rOut = Dropped

\* C10: when Resolve reaches a port-53 upstream that answers with an rcode
\* that is neither NOERROR nor SERVFAIL, Resolve returns the upstream's
\* response with no error and the worker holds it, packed, as the result job
\* for the client the query came from.
LoopContinues(call) ==
  \/ Resolvers[call.resolver].Port \notin {53, 443}
  \/ /\ Resolvers[call.resolver].Port = 443
     /\ ~call.reply.err
     /\ call.reply.body \in {"empty", "records", "unpackable"}

OtherRcode(call) ==
  /\ Resolvers[call.resolver].Port = 53
  /\ ~call.reply.err
  /\ call.reply.Rcode \notin {RcodeSuccess, RcodeServerFailure}

UpstreamResponse(call) ==
  [Id |-> rQuery.Id, Response |-> TRUE, Rcode |-> call.reply.Rcode,
   Answer |-> call.reply.body]

DNSPassthrough ==
  \A i \in 1..Len(rCalls) :
    (/\ rOut # Pending
     /\ ~rQuery.err
     /\ OtherRcode(rCalls[i])
     /\ \A j \in 1..(i - 1) : LoopContinues(rCalls[j]))
    => /\ rResolve.panic = "none" /\ ~rResolve.err
       /\ rResolve.msg = UpstreamResponse(rCalls[i])
       /\ rOut.pc = "send"
       /\ rOut.resp = UpstreamResponse(rCalls[i])
       /\ rOut.job.Addr = rJob.Addr
       /\ rOut.panic = "none"

NameErrorForwarded ==
  /\ rOut.pc = "send"
  /\ rOut.resp.Rcode = RcodeNameError
  /\ Len(rCalls) = 2

\* The upstream selected for the only question of the job handled alone.
OnlyCall == rCalls[1]
OneQuestionOn(port) ==
  /\ rOut # Pending
  /\ ~rQuery.err
  /\ rQuery.nq = 1
  /\ Resolvers[OnlyCall.resolver].Port = port

\* C11: when the DoH JSON reports a Status that is neither NOERROR nor
\* SERVFAIL, the response the worker holds for the client carries that
\* response code.
DoHStatusForwarded ==
  (/\ OneQuestionOn(443)
   /\ ~OnlyCall.reply.err
   /\ OnlyCall.reply.Rcode \notin {RcodeSuccess, RcodeServerFailure}
   /\ rOut.pc = "send")
  => rOut.resp.Rcode = OnlyCall.reply.Rcode

\* C12: when the DoH upstream answers with a status that is not 2xx, whatever
\* the body, Resolve fails and the worker drops the job.
HTTPFailureDropped ==
  (/\ OneQuestionOn(443)
   /\ ~OnlyCall.reply.err
   /\ OnlyCall.reply.http \notin 200..299)
  => /\ rResolve.err
     /\ rOut = Dropped

\* C13: when the upstream selected has a port other than 53 and 443, Resolve
\* returns an error and no message, and the worker drops the job.
InvalidPortIsError ==
  (/\ rOut # Pending
   /\ ~rQuery.err
   /\ rQuery.nq >= 1
   /\ Resolvers[OnlyCall.resolver].Port \notin {53, 443})
  => /\ rResolve.err
     /\ rResolve.msg = NilMsg
     /\ rOut = Dropped

\* The supported set of the specification.
ClaimedTypes == {1, 2, 5, 6, 12, 15, 16, 28, 33, 46, 47}

\* The records of the reply in the order the loops reach them, when every
\* section is absent or a list.
ListOf(section) == IF section.t = "array" THEN section.v ELSE << >>
RecordsOf(m) == ListOf(m.Answer) \o ListOf(m.Authority) \o ListOf(m.Additional)
SectionsAreLists(m) ==
  /\ m.Answer.t \in {"absent", "array"}
  /\ m.Authority.t \in {"absent", "array"}
  /\ m.Additional.t \in {"absent", "array"}

HasUnsupportedType(e) ==
  e.obj /\ e.type.t = "number" /\ e.type.v \notin ClaimedTypes

\* responseM as constructResponseMessage receives it.
cBefore == SetReplyFull(cMsg, cQuery)

\* C14: if a record of the reply has a type outside the supported set and
\* every record before it is valid, reconstruction fails with an error,
\* responseM's sections and flags are what they were before the call, and
\* Resolve returns the error (the worker sends nothing).
UnsupportedRejectedWhole ==
  (/\ cRes # PendingRes
   /\ SectionsAreLists(cMap)
   /\ \E i \in 1..Len(RecordsOf(cMap)) :
        /\ HasUnsupportedType(RecordsOf(cMap)[i])
        /\ \A j \in 1..(i - 1) : RecordsOf(cMap)[j] \in {ElemA, ElemNS})
  => /\ cRes.panic = "none"
     /\ cRes.err
     /\ cRes.made = cBefore
     /\ cRes.next = "return"

\* An answer whose four fields have the JSON types the reconstructor reads.
WellShaped(a) ==
  /\ a.name.t = "string" /\ a.type.t = "number"
  /\ a.TTL.t = "number" /\ a.data.t = "string"

IsNumber(tok) == tok = "7"

\* The data grammar of each type of the specification.
WellFormedData(type, d) ==
  CASE type \in {1, 28} -> d = IPLiteral
    [] type \in {2, 5, 12} -> Len(d) = 1 /\ d \notin {IPLiteral, QuotedString}
    [] type = 6 -> Len(d) = 7 /\ \A i \in 3..7 : IsNumber(d[i])
    [] type = 15 -> Len(d) = 2 /\ IsNumber(d[1])
    [] type = 16 -> d = QuotedString
    [] type = 33 -> Len(d) = 4 /\ \A i \in 1..3 : IsNumber(d[i])
    [] type = 46 -> Len(d) = 9 /\ \A i \in 2..7 : IsNumber(d[i])
    [] type = 47 -> Len(d) >= 1 /\ d \notin {IPLiteral, QuotedString}
    [] OTHER -> TRUE

\* C15: an answer with well-formed data is reconstructed exactly when its
\* type is in the supported set, and fails with an error for any other type.
SupportedSetClosed ==
  (/\ cRR # PendingRR
   /\ WellShaped(cAnswer)
   /\ WellFormedData(cAnswer.type.v, cAnswer.data.v))
  => /\ cRR.panic = "none"
     /\ cRR.err <=> cAnswer.type.v \notin ClaimedTypes

\* C16: an answer of a supported type whose data parses yields one record of
\* class IN, whose name is the JSON name with a dot appended only when it
\* ends with none, and whose type and ttl are the JSON type and TTL.
RRShape ==
  (/\ cRR # PendingRR
   /\ WellShaped(cAnswer)
   /\ cAnswer.type.v \in ClaimedTypes
   /\ WellFormedData(cAnswer.type.v, cAnswer.data.v))
  => /\ cRR.panic = "none" /\ ~cRR.err
     /\ cRR.rr.Class = "IN"
     /\ cRR.rr.Name[Len(cRR.rr.Name)] = "."
     /\ cRR.rr.Name \in {cAnswer.name.v, cAnswer.name.v \o << "." >>}
     /\ (cAnswer.name.v[Len(cAnswer.name.v)] = "." => cRR.rr.Name = cAnswer.name.v)
     /\ cRR.rr.Rrtype = cAnswer.type.v
     /\ cRR.rr.Ttl = cAnswer.TTL.v

\* The positions of the numeric tokens of the data grammars, and the number
\* of tokens of each.
NumericPositions(type) ==
  CASE type = 6 -> 3..7
    [] type = 15 -> {1}
    [] type = 33 -> 1..3
    [] type = 46 -> 2..7

GrammarLength(type) ==
  CASE type = 6 -> 7
    [] type = 15 -> 2
    [] type = 33 -> 4
    [] type = 46 -> 9

\* C17: for an SOA, MX, SRV or RRSIG answer with every token of its grammar,
\* if a numeric token at any position is no decimal integer, reconstruction
\* fails with an error and yields no record.
NumericTokenRejected ==
  (/\ cRR # PendingRR
   /\ WellShaped(cAnswer)
   /\ cAnswer.type.v \in {6, 15, 33, 46}
   /\ Len(cAnswer.data.v) = GrammarLength(cAnswer.type.v)
   /\ \E i \in NumericPositions(cAnswer.type.v) : ~IsNumber(cAnswer.data.v[i]))
  => /\ cRR.panic = "none"
     /\ cRR.err
     /\ cRR.rr = NilRR

\* A reply with a section that is no list, an element that is no object, an
\* answer without its name, or a flag that is no boolean.
MalformedReply(m) ==
  \/ ~SectionsAreLists(m)
  \/ \E i \in 1..Len(RecordsOf(m)) :
       ~RecordsOf(m)[i].obj \/ ~WellShaped(RecordsOf(m)[i])
  \/ m.TC.t = "string" \/ m.RD.t = "string" \/ m.RA.t = "string"

\* C18: a malformed DoH reply is an error value: reconstruction returns an
\* error, Resolve returns it, and nothing panics.
MalformedIsError ==
  (cRes # PendingRes /\ MalformedReply(cMap))
  => /\ cRes.panic = "none"
     /\ cRes.err
     /\ cRes.next = "return"

\* C19: in every reconstructed response each of TC, RD and RA is the JSON
\* value when the key is present, and false, true, true when it is absent,
\* whatever the RD bit of the query.
FlagFrom(flag, default) == IF flag.t = "absent" THEN default ELSE flag.v

FlagDefaults ==
  cRes.next = "continue" =>
    /\ cRes.msg.TC = FlagFrom(cMap.TC, FALSE)
    /\ cRes.msg.RD = FlagFrom(cMap.RD, TRUE)
    /\ cRes.msg.RA = FlagFrom(cMap.RA, TRUE)

DefaultsOverrideQuery ==
  /\ cRes.next = "continue"
  /\ ~cQuery.RD
  /\ cMap.RD.t = "absent" /\ cMap.TC.t = "absent" /\ cMap.RA.t = "bool"
  /\ cRes.msg.RD /\ ~cRes.msg.TC

\* C20: the response Resolve goes on with after a question holds the records
\* obtained for the earlier questions of the query and those obtained for
\* this one.
Holds(rrs, rr) == \E i \in 1..Len(rrs) : rrs[i] = rr

MultiQuestionCombined ==
  cRes.next = "continue" =>
    /\ \A i \in 1..Len(cMsg.Answer) : Holds(cRes.msg.Answer, cMsg.Answer[i])
    /\ \A i \in 1..Len(ListOf(cMap.Answer)) :
         Holds(cRes.msg.Answer, constructResource(ListOf(cMap.Answer)[i]).rr)

\* ---------------------------------------------- claims on queues and jobs

\* The jobs of a queue whose return address is a.
InQueue(q, a) == Cardinality({i \in 1..Len(q) : q[i].Addr = a})

\* The listener holds a job that the full, open lookup queue cannot take.
ListenerHeld == lpc = "send" /\ ~lookUpClosed /\ Len(LookUpChan) = Num

\* C21: in every reachable state the lookup queue and the result queue hold
\* at most Num jobs each; while the lookup queue is full the listener at its
\* enqueue cannot complete it, and no step drops the job it holds or reads
\* another datagram: the listener stays at the enqueue with the same job
\* until a worker has dequeued.
Backpressure ==
  /\ [](Len(LookUpChan) <= Num /\ Len(ResultChan) <= Num)
  /\ [](ListenerHeld => ~ENABLED ListenerSend)
  /\ [][lpc = "send" /\ Len(LookUpChan) = Num
          => lpc' = "send" /\ lJob' = lJob /\ reads' = reads]_vars

\* The lookup queue is full, and the listener waits with a third job.
ListenerWaitsOnFullQueue == ListenerHeld /\ lJob.Addr = AddrOf(Num + 1)

\* A lookup job as the listener made it from the k-th datagram.
LookupJobOf(job, k) == job.Addr = AddrOf(k) /\ job.Data \in Datagrams(k)

\* A result job for the k-th datagram: its return address, and a response
\* that carries the id of that datagram's query if it carries one at all.
ResultJobOf(job, k) == job.Addr = AddrOf(k) /\ job.Data.Id \in {0, IdOf(k)}

\* C22: every result job in the result queue has the return address of the
\* datagram whose query it answers, every job a worker holds is a lookup job
\* as the listener read it, the result job a worker enqueues has the address
\* of the lookup job the worker holds, and every datagram the writer sends
\* goes to the address of the result job it dequeued.
ReturnAddressPreserved ==
  /\ [](\A i \in 1..Len(ResultChan) :
          \E k \in 1..reads : ResultJobOf(ResultChan[i], k))
  /\ [](\A w \in Workers :
          wpc[w] \in {"call", "send"}
            => /\ \E k \in 1..reads : LookupJobOf(wJob[w], k)
               /\ ResultJobOf([Addr |-> wJob[w].Addr, Data |-> wResp[w]],
                              wJob[w].Addr))
  /\ [][/\ \A w \in Workers :
            wpc[w] = "select" /\ wpc'[w] \in {"call", "send"}
              => LookUpChan # << >> /\ wJob'[w] = Head(LookUpChan)
        /\ \A w \in Workers :
            wpc[w] = "call" /\ wpc'[w] \in {"call", "send"}
              => wJob'[w] = wJob[w]
        /\ Len(ResultChan') > Len(ResultChan)
             => \E w \in Workers :
                  /\ wpc[w] = "send"
                  /\ wpc'[w] = "select"
                  /\ ResultChan'[Len(ResultChan')].Addr = wJob[w].Addr
        /\ \A a \in 1..MaxReads :
            hist'[a].written # hist[a].written
              => /\ ResultChan # << >>
                 /\ Head(ResultChan).Addr = a
                 /\ ResultChan' = Tail(ResultChan)]_vars

\* The answer to the second query is queued while a worker still holds the
\* answer to the first.
AnswersOutOfOrder ==
  /\ ResultChan # << >>
  /\ Head(ResultChan).Addr = AddrOf(2)
  /\ Head(ResultChan).Data.Id = IdOf(2)
  /\ \E w \in Workers :
       wpc[w] = "send" /\ wJob[w].Addr = AddrOf(1) /\ wResp[w].Id = IdOf(1)

\* A job is pending somewhere in the pipeline.
JobPending ==
  \/ lpc = "send"
  \/ LookUpChan # << >>
  \/ \E w \in Workers : wpc[w] \in {"call", "send"}
  \/ ResultChan # << >>

\* A step of a task on a pending job.
TaskStep ==
  \/ ListenerSend
  \/ WriterWrite
  \/ \E w \in Workers : WorkerRecv(w) \/ WorkerAnswered(w) \/ WorkerSend(w)

\* C23: while no shutdown signal is delivered, under weak fairness of the
\* tasks and with every upstream call answered successfully, every datagram
\* the listener read that parses as a query leads to a write to its return
\* address, no address is ever written to twice, and whenever a job is
\* pending some task can step.
RequestResponseLiveness ==
  /\ [](JobPending => ENABLED TaskStep)
  /\ \A k \in 1..MaxReads :
       /\ [](hist[k].written <= 1)
       /\ (lpc = "send" /\ LookupJobOf(lJob, k) /\ lJob.Data.ok)
            ~> (hist[k].written = 1)

\* Every datagram was read, each was a query, and each got its one write.
EveryQueryAnswered ==
  /\ reads = MaxReads
  /\ \A k \in 1..MaxReads : hist[k].parsed = 1 /\ hist[k].written = 1
  /\ ~JobPending

\* The stages that hold a job with return address a: the listener, the
\* lookup queue, the workers, the result queue.
Holders(a) ==
  (IF lJob.Addr = a THEN 1 ELSE 0)
    + InQueue(LookUpChan, a)
    + Cardinality({w \in Workers : wJob[w].Addr = a})
    + InQueue(ResultChan, a)

\* C25: the job made from a datagram is held by at most one stage at a
\* time, is dequeued and unpacked by at most one worker (and by none while
\* the listener or the lookup queue holds it), and is written at most once,
\* after which no stage holds it or a result made from it.
SingleOwnership ==
  \A k \in 1..MaxReads :
    /\ Holders(k) <= 1
    /\ hist[k].parsed <= 1
    /\ hist[k].written <= 1
    /\ Holders(k) + hist[k].written <= 1
    /\ (lJob.Addr = k \/ InQueue(LookUpChan, k) > 0) => hist[k].parsed = 0
    /\ (hist[k].written = 1 \/ InQueue(ResultChan, k) > 0)
         => hist[k].parsed = 1

\* Three jobs, one in each later stage: written, queued for the writer, held
\* by a worker.
EveryStageBusy ==
  /\ hist[1].written = 1
  /\ InQueue(ResultChan, 2) = 1
  /\ \E w \in Workers : wpc[w] = "call" /\ wJob[w].Addr = 3

\* The tasks that have sent their acknowledgement.
Exited ==
  {ListenerTag : x \in {lpc} \cap {"exited"}}
    \cup {WriterTag : x \in {wrpc} \cap {"exited"}}
    \cup {ResolverTag(w) : w \in {v \in Workers : wpc[v] = "exited"}}

\* C29: no signalling channel ever holds more than its capacity; whenever
\* Stop is at one of its sends of an exit signal the send can complete, and
\* whenever a task at its select has an exit signal to take, taking it and
\* sending the acknowledgement can complete.
SignallingNeverBlocks ==
  /\ ListenerExitChan <= 1
  /\ ResolverExitChan <= Num
  /\ WriterExitChan <= 1
  /\ ExitChanLen <= Cardinality(Exited)
  /\ Cardinality(Exited) <= Num + 2
  /\ Alive /\ stopPc \in {"signal_listener", "signal_resolvers",
                          "signal_writer"}
       => ENABLED StopNext
  /\ Alive /\ lpc = "select" /\ ListenerExitChan > 0
       => ExitChanLen < Num + 2 /\ ENABLED ListenerSelect
  /\ Alive /\ wrpc = "select" /\ WriterExitChan > 0 => ENABLED WriterExit
  /\ \A w \in Workers :
       Alive /\ wpc[w] = "select" /\ ResolverExitChan > 0
         => ENABLED WorkerExit(w)

\* Every exit signal is buffered and no task has taken its own yet.
EverySignalBuffered ==
  /\ ListenerExitChan = 1
  /\ ResolverExitChan = Num
  /\ WriterExitChan = 1
  /\ Exited = {}

\* C30: the workers unpack only jobs the listener enqueued and the writer
\* writes only result jobs a worker enqueued: neither ever handles the zero
\* job that a receive from a closed queue yields, and no address is handled
\* before its datagram was read.
NoPhantomJobs ==
  /\ hist[ZeroJob.Addr].parsed = 0
  /\ hist[ZeroJob.Addr].written = 0
  /\ \A k \in 1..MaxReads :
       hist[k].parsed > 0 \/ hist[k].written > 0 => k <= reads


\* ------------------------------------------- claims on Resolve's interface

\* The call has ended.
CallEnded == iOut.by # "pending"

\* C24: a call of Resolve, by client.go or by the earlier version, whatever
\* resolvers are passed, whatever shard picks and whatever the upstreams
\* answer, leaves every field of every member of the pool, and of every
\* resolver passed, as it was.
UpstreamsReadOnly ==
  CallEnded => iOut.pool = Pool /\ iOut.arg = iCall.given

\* The earlier version has called DoH for two questions, and its counter
\* has counted in the local copy of the resolver.
EarlierDoHCounted ==
  /\ iOut.by = "part_000"
  /\ Len(iOut.contacted) = 2
  /\ \A i \in 1..2 : iOut.contacted[i].Port = 443
  /\ iOut.local.count = 1

\* A reply was made, with a DoH upstream selected for a question and no
\* classical upstream for any.
RepliedThroughDoH ==
  /\ iOut.next = "send"
  /\ \E i \in 1..Len(iOut.selected) : iOut.selected[i].Port = 443
  /\ \A i \in 1..Len(iOut.selected) : iOut.selected[i].Port # 53

\* C26: the reply to a query of one or more questions that was resolved
\* through DoH has exactly one question, the first of the query, is marked
\* as a response and has the opcode of the query.
SingleQuestionReply ==
  RepliedThroughDoH
    => /\ iOut.msg.Question = << iCall.query.Question[1] >>
       /\ iOut.msg.Response
       /\ iOut.msg.Opcode = iCall.query.Opcode

\* An update with two different questions, both resolved through DoH by
\* client.go.
TwoQuestionsThroughDoH ==
  /\ RepliedThroughDoH
  /\ iOut.by = "client.go"
  /\ Len(iOut.contacted) = 2
  /\ iCall.query.Question[1] # iCall.query.Question[2]
  /\ iCall.query.Opcode # 0

\* C27: with no resolver passed, the upstream selected for each question is
\* the member of the pool shard picks, and shard can pick every member;
\* with one resolver passed, it is selected for every question; with more
\* than one, Resolve returns an error and has selected and contacted no
\* upstream.
ResolverSelection ==
  /\ shard = DOMAIN Pool
  /\ CallEnded =>
       /\ Len(iCall.given) = 0
            => \A i \in 1..Len(iOut.selected) :
                 iOut.selected[i] = Pool[iCall.picks[i]]
       /\ Len(iCall.given) = 1
            => \A i \in 1..Len(iOut.selected) :
                 iOut.selected[i] = iCall.given[1]
       /\ Len(iCall.given) > 1
            => /\ iOut.next = "return"
               /\ iOut.err
               /\ iOut.selected = << >>
               /\ iOut.contacted = << >>
       /\ Len(iCall.given) <= 1 /\ iOut.next = "send" /\ iOut.by = "part_000"
            => Len(iOut.selected) = Len(iCall.query.Question)

\* One resolver was passed, shard would have picked others, and client.go
\* used the one passed for both questions.
PassedResolverUsed ==
  /\ iOut.by = "client.go"
  /\ Len(iCall.given) = 1
  /\ Len(iOut.selected) = 2
  /\ \A i \in 1..2 : Pool[iCall.picks[i]] # iCall.given[1]

\* C28: the buffer of every job is at most 1024 bytes long: the listener's
\* buffer is, and so are the packed bytes of every result job, whatever the
\* upstream returned.
JobBufferBounded ==
  /\ BufferLen <= 1024
  /\ iOut.next = "send" => iOut.len <= BufferLen

\* ------------------------------------------- claims on the end of a run

\* The writer takes a result job from the result queue and calls
\* client.PC.WriteTo with it.
WriterAttemptsWrite ==
  /\ wrpc = "select"
  /\ ResultChan # << >>
  /\ ResultChan' = Tail(ResultChan)

\* C31: the writer never calls WriteTo with a result job after Stop has
\* closed the socket: every result job is written while the socket is open
\* or not at all.
NoWriteAfterSocketClose ==
  [][WriterAttemptsWrite => pcOpen]_vars

\* A further shutdown signal is delivered after Stop has consumed one.
FurtherSignal ==
  /\ stopPc # "wait_signal"
  /\ signals' = signals + 1

\* C32: a shutdown signal delivered after Stop has consumed the first one,
\* at any later point of the shutdown, is never a send on a closed channel
\* and leaves the process running its shutdown.
RepeatedSignalHarmless ==
  [][FurtherSignal => ~shutDownClosed /\ panic' = "none"]_vars

====
